---- MODULE Spec2Model ----
(***************************************************************************)
(* Model of the two command line tools of the repository:                  *)
(*   immich_auto_album.py   (album reconciliation against an Immich server)*)
(*   immich_sync_library.py (library scan trigger)                         *)
(* Both are module level scripts; a run is a walk through the script from  *)
(* argument parsing to the last statement, an exit or an uncaught          *)
(* exception.  The Immich server is the environment.                       *)
(***************************************************************************)
EXTENDS Integers, Sequences, FiniteSets, TLC

VARIABLES
    tool,                \* which script runs
    args,                \* parsed command line (argparse) and environment
    pc,                  \* position in the script
    exit_code,           \* process exit status, -1 while running
    exc,                 \* class of the uncaught exception that ended the run
    version,             \* result of fetch_server_version()
    server,              \* state of the Immich server
    manifest,            \* album_list.json + shared_album_list.json + album-<id>.json
    requests,            \* mutating HTTP requests issued so far, in order
    albums_to_create,    \* dict final name -> AlbumModel, as an ordered list
    album_to_id,         \* dict album name -> album id, as a list of pairs
    created_albums,      \* final names of the models appended to created_albums
    asset_uuids_added,   \* ids gathered for archiving
    albums,              \* last result of fetch_albums()
    users,               \* result of fetch_users()
    idx,                 \* index of the running for loop
    empty_album_count,
    cleaned_album_count,
    request_time,        \* sync_library: time taken before the scan request
    run,                 \* number of the invocation of the tool
    baseline,            \* the server's albums when this invocation started
    call                 \* functions applied on their own: the calls made, oldest first

vars == <<tool, args, pc, exit_code, exc, version, server, manifest, requests,
          albums_to_create, album_to_id, created_albums, asset_uuids_added,
          albums, users, idx, empty_album_count, cleaned_album_count, request_time,
          run, baseline, call>>

----------------------------------------------------------------------------
(* Bounds of the model *)

MaxAlbums == 2       \* album titles are 1..MaxAlbums, ordered as their names sort
MaxAssets == 2       \* asset ids are 1..MaxAssets
MaxFlagsSet == 2     \* command line options / environment settings off their default
MaxFail == 1         \* requests of one step that the server answers with an error
MaxClock == 3        \* seconds the library scan wait is followed for
ChunkSize == 1       \* --chunk-size: asset ids per add request

----------------------------------------------------------------------------
(* Generic helpers *)

Range(s) == {s[i] : i \in 1..Len(s)}

RECURSIVE SeqOfSet(_)
SeqOfSet(S) == IF S = {} THEN <<>>
               ELSE LET x == CHOOSE y \in S : \A z \in S : y <= z
                    IN <<x>> \o SeqOfSet(S \ {x})

Last(s) == s[Len(s)]

\* the subsets of S with at most k elements
RECURSIVE SubsetsUpTo(_, _)
SubsetsUpTo(S, k) ==
    IF k = 0 THEN {{}}
    ELSE LET smaller == SubsetsUpTo(S, k - 1)
         IN smaller \cup {T \cup {x} : T \in smaller, x \in S}

----------------------------------------------------------------------------
(* Script constants *)

SHARE_ROLES == {"editor", "viewer"}
ALBUM_THUMBNAIL_RANDOM_ALL == "random-all"
ALBUM_THUMBNAIL_SETTINGS == {"first", "last", "random"}
ALBUM_THUMBNAIL_SETTINGS_GLOBAL == ALBUM_THUMBNAIL_SETTINGS \cup {ALBUM_THUMBNAIL_RANDOM_ALL}
\* Python list indices 0 and -1
ALBUM_THUMBNAIL_STATIC_INDICES == [s \in {"first", "last"} |-> IF s = "first" THEN 0 ELSE -1]

\* The name HTTPError as the scripts import it (from urllib.error import HTTPError)
HTTPError == "urllib.error.HTTPError"

\* What requests.Response.raise_for_status() raises for a 4xx/5xx answer
RequestsHTTPError == "requests.exceptions.HTTPError"

\* Python class hierarchy of the exceptions that occur
Mro(e) ==
    CASE e = "requests.exceptions.HTTPError" ->
            {"requests.exceptions.HTTPError", "requests.exceptions.RequestException", "OSError", "Exception"}
      [] e = "urllib.error.HTTPError" ->
            {"urllib.error.HTTPError", "urllib.error.URLError", "OSError", "Exception"}
      [] e = "FileNotFoundError" -> {"FileNotFoundError", "OSError", "Exception"}
      [] OTHER -> {e, "Exception"}

\* except <classes>: does the clause catch exception e
Catches(e, classes) == e # "None" /\ (Mro(e) \cap classes) # {}

----------------------------------------------------------------------------
(* Command line and environment *)

DefaultArgs ==
    [ api_key_type |-> "literal", key_file_exists |-> TRUE,
      unattended |-> FALSE, is_docker |-> FALSE,
      share_with |-> <<>>, share_role |-> "viewer",
      sync_mode |-> 0, album_order |-> "False",
      set_album_thumbnail |-> "None", archive |-> FALSE,
      comments_and_likes_enabled |-> FALSE, comments_and_likes_disabled |-> FALSE,
      update_album_props_mode |-> 0, sync_library |-> 0, wait |-> FALSE,
      chunk_size |-> ChunkSize, fetch_chunk_size |-> 5000,
      find_assets_in_albums |-> FALSE ]

\* Settings of a run that differ from the default run, by a short name: command
\* line options, environment, and what the tool meets on disk and on the server
FlagOptions ==
    {"key_file", "no_file", "unattended", "docker", "share_alice", "share_bob",
     "sync1", "sync2", "asc", "thumb_first", "thumb_random", "thumb_random_all",
     "archive", "likes_on", "likes_off", "props1", "props2", "sync_library",
     "in_albums"}
VersionOptions == {"v0_200", "v1_105", "v1_106", "v2_0"}
CatalogOptions == {"catalog_empty", "catalog_plain"}
ServerOptions == {"no_permission", "offline"}
AutoAlbumOptions == FlagOptions \cup VersionOptions \cup CatalogOptions \cup ServerOptions
SyncLibraryOptions == {"key_file", "no_file", "wait"} \cup VersionOptions

ExclusiveGroups ==
    { {"sync1", "sync2"}, {"props1", "props2"},
      {"thumb_first", "thumb_random", "thumb_random_all"},
      VersionOptions, CatalogOptions }

OptionSets(options) ==
    {S \in SubsetsUpTo(options, MaxFlagsSet) :
        \A G \in ExclusiveGroups : Cardinality(S \cap G) <= 1}

\* --share-with values, split at "=" (parse_separated_string does the split)
ShareWithOf(S) ==
    (IF "share_alice" \in S THEN << <<"alice", "editor">> >> ELSE <<>>)
    \o (IF "share_bob" \in S THEN << <<"bob@x">>, <<"ghost">> >> ELSE <<>>)

ArgsOf(S) ==
    [ api_key_type |-> IF "key_file" \in S THEN "file" ELSE "literal",
      key_file_exists |-> "no_file" \notin S,
      unattended |-> "unattended" \in S,
      is_docker |-> "docker" \in S,
      share_with |-> ShareWithOf(S),
      share_role |-> "viewer",
      sync_mode |-> IF "sync1" \in S THEN 1 ELSE IF "sync2" \in S THEN 2 ELSE 0,
      album_order |-> IF "asc" \in S THEN "asc" ELSE "False",
      set_album_thumbnail |->
          IF "thumb_first" \in S THEN "first"
          ELSE IF "thumb_random" \in S THEN "random"
          ELSE IF "thumb_random_all" \in S THEN "random-all" ELSE "None",
      archive |-> "archive" \in S,
      comments_and_likes_enabled |-> "likes_on" \in S,
      comments_and_likes_disabled |-> "likes_off" \in S,
      update_album_props_mode |-> IF "props1" \in S THEN 1 ELSE IF "props2" \in S THEN 2 ELSE 0,
      sync_library |-> IF "sync_library" \in S THEN 1 ELSE 0,
      wait |-> "wait" \in S,
      chunk_size |-> ChunkSize,
      fetch_chunk_size |-> 5000,
      find_assets_in_albums |-> "in_albums" \in S ]

----------------------------------------------------------------------------
(* The server: assets, users, albums *)

AssetIds == 1..MaxAssets
PathNames == <<"/lib/1.jpg", "/lib/2.jpg", "/lib/3.jpg", "/lib/4.jpg", "/lib/5.jpg">>
FileCreatedAt(i) == i % 2

AssetRec(i) == [id |-> i, originalPath |-> PathNames[i], fileCreatedAt |-> FileCreatedAt(i)]
NoAsset == [id |-> 0, originalPath |-> "", fileCreatedAt |-> 0]

\* GET users
ServerUsers == << [id |-> 1, name |-> "alice", email |-> "alice@x"],
                  [id |-> 2, name |-> "bob", email |-> "bob@x"] >>

VersionOf(S) ==
    IF "v0_200" \in S THEN [major |-> 0, minor |-> 200, patch |-> 0]
    ELSE IF "v1_105" \in S THEN [major |-> 1, minor |-> 105, patch |-> 9]
    ELSE IF "v1_106" \in S THEN [major |-> 1, minor |-> 106, patch |-> 0]
    ELSE IF "v2_0" \in S THEN [major |-> 2, minor |-> 0, patch |-> 0]
    ELSE [major |-> 1, minor |-> 116, patch |-> 0]
NoVersion == [major |-> -1, minor |-> -1, patch |-> -1]

ServerAlbum(id, name, assets, album_users) ==
    [id |-> id, albumName |-> name, assets |-> assets, albumUsers |-> album_users]

\* Album listings a run may meet: the albums named in E exist, all empty or all
\* holding asset 1 and shared with alice (viewer) and bob (editor)
RemoteNames == 1..(MaxAlbums + 1)
RemoteNameSets == {{}, {1}, {MaxAlbums + 1}, 1..MaxAlbums, RemoteNames}
FilledUsers == << [user |-> 1, role |-> "viewer"], [user |-> 2, role |-> "editor"] >>
SnapshotAlbums(E, filled) ==
    LET names == SeqOfSet(E)
    IN [i \in 1..Len(names) |->
          ServerAlbum(10 + i, names[i],
                      IF filled THEN <<1>> ELSE <<>>,
                      IF filled THEN FilledUsers ELSE <<>>)]

ServerOf(S, E, filled) ==
    [ version |-> VersionOf(S), albums |-> SnapshotAlbums(E, filled), next_id |-> 20,
      archived |-> {},
      no_permission |-> IF "no_permission" \in S THEN {MaxAssets} ELSE {},
      trashed |-> IF "offline" \in S THEN {1, MaxAssets} ELSE {},
      offline |-> IF "offline" \in S THEN {1} ELSE {},
      libraries |-> <<1, 2>>, removal_jobs |-> <<>>, refused_jobs |-> <<>>,
      refreshedAt |-> 0, scanning |-> FALSE, clock |-> 1 ]

----------------------------------------------------------------------------
(* The Google Photos archive on disk *)

\* ids of the archive's media table; the last one has no file in the library
Gpids == 1..(MaxAssets + 1)

GAlbum(id, title, cover, items) ==
    [id |-> id, title |-> title, has_meta |-> TRUE, coverPhotoMediaItemId |-> cover, items |-> items]

\* one album per title n, n-1, .., 1 (so not in name order), album t holding item t
PlainManifest(n) ==
    [i \in 1..n |-> LET t == n + 1 - i IN GAlbum(t, t, 0, IF t <= MaxAssets THEN <<t>> ELSE <<>>)]

\* the same with a cover photo on album 1, and a shared list that repeats an
\* album id, has an entry without title and a second album titled 1
RichManifest(n) ==
    [i \in 1..n |-> LET t == n + 1 - i
                    IN GAlbum(t, t, IF t = 1 THEN 1 ELSE 0, IF t <= MaxAssets THEN <<t, t>> ELSE <<>>)]
    \o << GAlbum(1, 1, 0, <<MaxAssets>>),
          [GAlbum(50, 1, 0, <<>>) EXCEPT !.has_meta = FALSE],
          GAlbum(51, 1, 0, <<MaxAssets + 1, MaxAssets, 1>>) >>

ManifestOf(S) ==
    IF "catalog_empty" \in S THEN <<>>
    ELSE IF "catalog_plain" \in S THEN PlainManifest(MaxAlbums)
    ELSE RichManifest(MaxAlbums)

----------------------------------------------------------------------------
(* Python dicts, which keep insertion order, as lists of [key, value] *)

DictHas(d, k) == \E i \in 1..Len(d) : d[i].key = k
DictGet(d, k) == d[CHOOSE i \in 1..Len(d) : d[i].key = k].value
DictSet(d, k, v) ==
    IF DictHas(d, k)
    THEN [i \in 1..Len(d) |-> IF d[i].key = k THEN [key |-> k, value |-> v] ELSE d[i]]
    ELSE Append(d, [key |-> k, value |-> v])
DictKeys(d) == [i \in 1..Len(d) |-> d[i].key]
DictValues(d) == [i \in 1..Len(d) |-> d[i].value]

\* the dict left in the order of its insertions
InsertionOrder(d) == d

\* dict(sorted(d.items(), key=lambda item: item[0]))
RECURSIVE SortedByKey(_)
SortedByKey(d) ==
    IF d = <<>> THEN <<>>
    ELSE LET m == CHOOSE i \in 1..Len(d) : \A j \in 1..Len(d) : d[i].key <= d[j].key
         IN <<d[m]>> \o SortedByKey([j \in 1..(Len(d) - 1) |-> IF j < m THEN d[j] ELSE d[j + 1]])

----------------------------------------------------------------------------
(* AlbumModel and the desired-state builder *)

AlbumModel(name) ==
    [ id |-> 0, name |-> name, override_name |-> 0, description |-> "None",
      assets |-> <<>>, share_with |-> <<>>, thumbnail_setting |-> "None",
      sort_order |-> "None", archive |-> "None", comments_and_likes_enabled |-> "None" ]

get_final_name(m) == IF m.override_name # 0 THEN m.override_name ELSE m.name

get_asset_uuids(m) == [i \in 1..Len(m.assets) |-> m.assets[i].id]

\* items is the string already split at the separator
parse_separated_string(items) ==
    [key |-> items[1], value |-> IF Len(items) > 1 THEN items[2] ELSE "None"]

set_album_properties_in_model(m, a) ==
    LET shares == [i \in 1..Len(a.share_with) |->
                     LET p == parse_separated_string(a.share_with[i])
                     IN [user |-> p.key,
                         role |-> IF p.value = "None" THEN a.share_role ELSE p.value]]
    IN [m EXCEPT
          !.share_with = @ \o shares,
          !.thumbnail_setting = IF a.set_album_thumbnail # "None" THEN a.set_album_thumbnail ELSE @,
          !.archive = IF a.archive THEN "True" ELSE @,
          !.sort_order = IF a.album_order # "False" THEN a.album_order ELSE @,
          !.comments_and_likes_enabled =
              IF a.comments_and_likes_enabled THEN "True"
              ELSE IF a.comments_and_likes_disabled THEN "False" ELSE @]

\* the library file a row of the archive's media table points at (0: none)
MediaAsset(g) == IF g <= MaxAssets THEN g ELSE 0

\* gpid -> asset dict, for the rows whose path is the path of a fetched asset
build_id_mapping(asset_list) ==
    [g \in Gpids |->
        IF \E i \in 1..Len(asset_list) : asset_list[i].id = MediaAsset(g)
        THEN AssetRec(MediaAsset(g)) ELSE NoAsset]

\* the inner loop without the test 'asset_id in asset_ids'
RECURSIVE AddEveryManifestItem(_, _, _, _)
AddEveryManifestItem(acc, items, i, asset_by_gpid) ==
    IF i > Len(items) THEN acc
    ELSE LET asset == asset_by_gpid[items[i]]
             acc1 == [acc EXCEPT !.asset_ids = @ \cup {items[i]},
                                 !.model.assets = IF asset = NoAsset THEN @ ELSE Append(@, asset)]
         IN AddEveryManifestItem(acc1, items, i + 1, asset_by_gpid)

\* the inner loop of build_album_list over one album's item file
RECURSIVE AddManifestItems(_, _, _, _)
AddManifestItems(acc, items, i, asset_by_gpid) ==
    IF i > Len(items) THEN acc
    ELSE LET g == items[i]
         IN IF g \in acc.asset_ids
            THEN AddManifestItems(acc, items, i + 1, asset_by_gpid)
            ELSE LET asset == asset_by_gpid[g]
                     acc1 == [acc EXCEPT !.asset_ids = @ \cup {g},
                                         !.model.assets = IF asset = NoAsset THEN @ ELSE Append(@, asset)]
                 IN AddManifestItems(acc1, items, i + 1, asset_by_gpid)

RECURSIVE BuildAlbumListFrom(_, _, _, _, _)
BuildAlbumListFrom(st, google_albums, i, asset_by_gpid, a) ==
    IF i > Len(google_albums) THEN st
    ELSE LET g == google_albums[i]
         IN IF ~g.has_meta \/ g.id \in st.album_ids
            THEN BuildAlbumListFrom(st, google_albums, i + 1, asset_by_gpid, a)
            ELSE LET album_name == g.title
                     thumbnail_asset ==
                         IF g.coverPhotoMediaItemId # 0
                         THEN asset_by_gpid[g.coverPhotoMediaItemId] ELSE NoAsset
                     fresh ==
                         set_album_properties_in_model(
                             [AlbumModel(album_name) EXCEPT
                                 !.thumbnail_setting =
                                     IF thumbnail_asset # NoAsset
                                     THEN thumbnail_asset.originalPath ELSE @], a)
                     new_album_model ==
                         IF ~DictHas(st.album_models, album_name)
                         THEN fresh ELSE DictGet(st.album_models, album_name)
                     asset_ids == IF DictHas(st.album_asset_ids, album_name)
                                  THEN DictGet(st.album_asset_ids, album_name) ELSE {}
                     done == AddManifestItems([model |-> new_album_model, asset_ids |-> asset_ids],
                                              g.items, 1, asset_by_gpid)
                     st1 == [album_ids |-> st.album_ids \cup {g.id},
                             loaded |-> Append(st.loaded, g.id),
                             album_asset_ids |-> DictSet(st.album_asset_ids, album_name, done.asset_ids),
                             album_models |-> DictSet(st.album_models,
                                                      get_final_name(done.model), done.model)]
                 IN BuildAlbumListFrom(st1, google_albums, i + 1, asset_by_gpid, a)

\* album_ids, album_asset_ids and album_models before the loop; loaded lists the
\* album ids whose item file album-<id>.json the loop opens
EmptyAlbumList == [album_ids |-> {}, loaded |-> <<>>, album_asset_ids |-> <<>>, album_models |-> <<>>]

build_album_list(asset_by_gpid, google_albums, a) ==
    BuildAlbumListFrom(EmptyAlbumList, google_albums, 1, asset_by_gpid, a).album_models

----------------------------------------------------------------------------
(* Remote service client.  A client function takes the context c of the run:  *)
(*   c.server    the server's state                                            *)
(*   c.requests  the mutating requests issued so far                           *)
(*   c.exc       the exception being raised ("None": none)                     *)
(*   c.ret       the function's return value                                   *)
(* and the set F of the requests of this step that the server answers with an  *)
(* error status: <<op, k>> is the k-th request of kind op.                     *)

\* the oracles of a step that issues requests of the given kinds
Oracles(kinds) == SubsetsUpTo(kinds \X (1..2), MaxFail)
Fails(F, op, k) == <<op, k>> \in F

NoData == [albumThumbnailAssetId |-> 0, description |-> "None", order |-> "None",
           isActivityEnabled |-> "None", fields |-> {}]

Request(op, album, ids, role, data, ok) ==
    [op |-> op, album |-> album, ids |-> ids, role |-> role, data |-> data, ok |-> ok]

\* response.raise_for_status()
raise_for_status(ok) == IF ok THEN "None" ELSE RequestsHTTPError

\* try: raise_for_status() / except HTTPError: log the payload / raise_for_status()
check_api_response(ok) ==
    LET first == raise_for_status(ok)
    IN IF first = "None" THEN "None"
       ELSE IF Catches(first, {HTTPError}) THEN raise_for_status(ok)
       ELSE first

Raise(c, e) == [c EXCEPT !.exc = e]
Sent(c, req) == [c EXCEPT !.requests = Append(@, req)]

AlbumIndex(srv, id) == CHOOSE i \in 1..Len(srv.albums) : srv.albums[i].id = id
AlbumExists(srv, id) == \E i \in 1..Len(srv.albums) : srv.albums[i].id = id

\* GET albums: id, name and asset count of every album
fetch_albums(c, F, k) ==
    IF Fails(F, "albums", k) THEN Raise(c, check_api_response(FALSE))
    ELSE [c EXCEPT !.ret = [i \in 1..Len(c.server.albums) |->
                               [id |-> c.server.albums[i].id,
                                albumName |-> c.server.albums[i].albumName,
                                assetCount |-> Len(c.server.albums[i].assets)]]]

\* GET albums/<id>
fetch_album_info(c, album_id, F, k) ==
    IF Fails(F, "album_info", k) \/ ~AlbumExists(c.server, album_id)
    THEN Raise(c, check_api_response(FALSE))
    ELSE [c EXCEPT !.ret = c.server.albums[AlbumIndex(c.server, album_id)]]

\* GET users
fetch_users(c, F) ==
    IF Fails(F, "users", 1) THEN Raise(c, check_api_response(FALSE))
    ELSE [c EXCEPT !.ret = ServerUsers]

\* the largest page size of the search endpoint
SearchPageLimit == 1000

\* min(1000, number_of_assets_to_fetch_per_request)
search_page_size(a) ==
    IF a.fetch_chunk_size < SearchPageLimit THEN a.fetch_chunk_size ELSE SearchPageLimit

\* the server's page of the matching assets
ServerPage(matching, size, page) ==
    SubSeq(matching, (page - 1) * size + 1,
           IF page * size < Len(matching) THEN page * size ELSE Len(matching))

\* a search request as c.pages keeps it: the page asked for and the answer
SearchRequest(page, items, ok) == [page |-> page, items |-> items, ok |-> ok]

\* the loop stopping after the first page, whatever its length
RECURSIVE fetch_first_page_only(_, _, _, _, _, _)
fetch_first_page_only(c, matching, size, page, assets_found, F) ==
    IF Fails(F, "search", page)
    THEN Raise([c EXCEPT !.pages = Append(@, SearchRequest(page, 0, FALSE))], raise_for_status(FALSE))
    ELSE [c EXCEPT !.ret = ServerPage(matching, size, page),
                   !.pages = Append(@, SearchRequest(page, Len(ServerPage(matching, size, page)), TRUE))]

\* POST search/metadata page by page, c.pages keeping the requests; the first
\* request raises through raise_for_status, the later ones through
\* check_api_response
RECURSIVE fetch_assets_with_options(_, _, _, _, _, _)
fetch_assets_with_options(c, matching, size, page, assets_found, F) ==
    IF Fails(F, "search", page)
    THEN Raise([c EXCEPT !.pages = Append(@, SearchRequest(page, 0, FALSE))],
               IF page = 1 THEN raise_for_status(FALSE) ELSE check_api_response(FALSE))
    ELSE LET assets_received == ServerPage(matching, size, page)
             c1 == [c EXCEPT !.pages = Append(@, SearchRequest(page, Len(assets_received), TRUE))]
         IN IF Len(assets_received) = size
            THEN fetch_assets_with_options(c1, matching, size, page + 1,
                                           assets_found \o assets_received, F)
            ELSE [c1 EXCEPT !.ret = assets_found \o assets_received]

\* the assets that match {'isNotInAlbum': ..., 'withArchived': ...}, fetched page
\* by page
fetch_assets(c, is_not_in_album, find_archived, a, F) ==
    LET in_album == UNION {Range(c.server.albums[i].assets) : i \in 1..Len(c.server.albums)}
        found == {i \in AssetIds \ c.server.trashed :
                     /\ (is_not_in_album => i \notin in_album)
                     /\ (~find_archived => i \notin c.server.archived)}
        ids == SeqOfSet(found)
        r == fetch_assets_with_options(
                 [server |-> c.server, requests |-> c.requests, exc |-> c.exc, ret |-> c.ret,
                  pages |-> <<>>],
                 [i \in 1..Len(ids) |-> AssetRec(ids[i])], search_page_size(a), 1, <<>>, F)
    IN [c EXCEPT !.exc = r.exc, !.ret = r.ret]

\* the create request sent again when it was answered with an error
create_album_with_retry(c, album_name_to_create, F) ==
    LET ok == ~Fails(F, "create", 1)
        c1 == Sent(c, Request("create", album_name_to_create, <<>>, "None", NoData, ok))
        c2 == IF ok THEN c1
              ELSE Sent(c1, Request("create", album_name_to_create, <<>>, "None", NoData, TRUE))
    IN [c2 EXCEPT
          !.server.albums = Append(@, ServerAlbum(c.server.next_id, album_name_to_create, <<>>, <<>>)),
          !.server.next_id = @ + 1,
          !.ret = c.server.next_id]

\* POST albums
create_album(c, album_name_to_create, F) ==
    LET ok == ~Fails(F, "create", 1)
        c1 == Sent(c, Request("create", album_name_to_create, <<>>, "None", NoData, ok))
    IN IF ~ok THEN Raise(c1, check_api_response(FALSE))
       ELSE [c1 EXCEPT
               !.server.albums = Append(@, ServerAlbum(c.server.next_id, album_name_to_create, <<>>, <<>>)),
               !.server.next_id = @ + 1,
               !.ret = c.server.next_id]

\* DELETE albums/<id>
delete_album(c, album_delete, F, k) ==
    LET ok == ~Fails(F, "delete", k) /\ AlbumExists(c.server, album_delete.id)
        c1 == Sent(c, Request("delete", album_delete.id, <<>>, "None", NoData, ok))
        e == check_api_response(ok)
    IN IF e = "None"
       THEN [c1 EXCEPT
               !.server.albums = SelectSeq(@, LAMBDA al : al.id # album_delete.id),
               !.ret = TRUE]
       ELSE IF Catches(e, {HTTPError}) THEN [c1 EXCEPT !.ret = FALSE]
       ELSE Raise(c1, e)

\* the chunking that yields full chunks only and drops a shorter last one
divide_full_chunks(full_list, chunk_size) ==
    [j \in 1..(Len(full_list) \div chunk_size) |->
        SubSeq(full_list, (j - 1) * chunk_size + 1, j * chunk_size)]

\* for i in range(0, len(full_list), chunk_size): yield full_list[i:i + chunk_size]
divide_chunks(full_list, chunk_size) ==
    [j \in 1..((Len(full_list) + chunk_size - 1) \div chunk_size) |->
        SubSeq(full_list, (j - 1) * chunk_size + 1,
               IF j * chunk_size < Len(full_list) THEN j * chunk_size ELSE Len(full_list))]

\* The server's answer to PUT albums/<id>/assets, one result per submitted id
RECURSIVE ServerAddAssets(_, _, _, _)
ServerAddAssets(srv, ai, ids, i) ==
    IF i > Len(ids) THEN [server |-> srv, response |-> <<>>]
    ELSE LET id == ids[i]
             res == IF id \in Range(srv.albums[ai].assets)
                    THEN [id |-> id, success |-> FALSE, error |-> "duplicate"]
                    ELSE IF id \in srv.no_permission
                    THEN [id |-> id, success |-> FALSE, error |-> "no_permission"]
                    ELSE [id |-> id, success |-> TRUE, error |-> "None"]
             srv1 == IF res.success THEN [srv EXCEPT !.albums[ai].assets = Append(@, id)] ELSE srv
             rest == ServerAddAssets(srv1, ai, ids, i + 1)
         IN [server |-> rest.server, response |-> <<res>> \o rest.response]

\* the loop without its test of res['success']: every answered id counts as added
RECURSIVE AddChunksUnchecked(_, _, _, _, _, _)
AddChunksUnchecked(c, album_id, assets_chunked, k, asset_list_added, F) ==
    IF k > Len(assets_chunked) THEN [c EXCEPT !.ret = asset_list_added]
    ELSE LET ok == ~Fails(F, "add", k) /\ AlbumExists(c.server, album_id)
             c1 == Sent(c, Request("add", album_id, assets_chunked[k], "None", NoData, ok))
         IN IF ~ok THEN Raise(c1, check_api_response(FALSE))
            ELSE LET ans == ServerAddAssets(c.server, AlbumIndex(c.server, album_id), assets_chunked[k], 1)
                 IN AddChunksUnchecked([c1 EXCEPT !.server = ans.server], album_id, assets_chunked,
                                       k + 1, asset_list_added \o assets_chunked[k], F)

RECURSIVE AddChunks(_, _, _, _, _, _)
AddChunks(c, album_id, assets_chunked, k, asset_list_added, F) ==
    IF k > Len(assets_chunked) THEN [c EXCEPT !.ret = asset_list_added]
    ELSE LET ok == ~Fails(F, "add", k) /\ AlbumExists(c.server, album_id)
             c1 == Sent(c, Request("add", album_id, assets_chunked[k], "None", NoData, ok))
         IN IF ~ok THEN Raise(c1, check_api_response(FALSE))
            ELSE LET ans == ServerAddAssets(c.server, AlbumIndex(c.server, album_id), assets_chunked[k], 1)
                     good == SelectSeq(ans.response, LAMBDA res : res.success)
                     c2 == [c1 EXCEPT !.server = ans.server]
                 IN AddChunks(c2, album_id, assets_chunked, k + 1,
                              asset_list_added \o [i \in 1..Len(good) |-> good[i].id], F)

add_assets_to_album(c, assets_add_album_id, asset_list, a, F) ==
    AddChunks(c, assets_add_album_id, divide_chunks(asset_list, a.chunk_size), 1, <<>>, F)

\* PUT assets
set_assets_archived(c, asset_ids_to_archive, is_archived, F) ==
    LET ok == ~Fails(F, "archive", 1)
        c1 == Sent(c, Request("archive", 0, asset_ids_to_archive, "None", NoData, ok))
    IN IF ~ok THEN Raise(c1, check_api_response(FALSE))
       ELSE [c1 EXCEPT !.server.archived =
                IF is_archived THEN @ \cup Range(asset_ids_to_archive)
                ELSE @ \ Range(asset_ids_to_archive)]

----------------------------------------------------------------------------
(* Thumbnail selection and property convergence *)

\* the sort placing an asset before the assets of the same creation time
RECURSIVE InsertBeforeEqual(_, _)
InsertBeforeEqual(sorted, x) ==
    IF sorted = <<>> THEN <<x>>
    ELSE IF Last(sorted).fileCreatedAt < x.fileCreatedAt THEN Append(sorted, x)
    ELSE Append(InsertBeforeEqual(SubSeq(sorted, 1, Len(sorted) - 1), x), Last(sorted))

\* list.sort(key=fileCreatedAt): stable insertion sort
RECURSIVE InsertByCreated(_, _)
InsertByCreated(sorted, x) ==
    IF sorted = <<>> THEN <<x>>
    ELSE IF Last(sorted).fileCreatedAt <= x.fileCreatedAt THEN Append(sorted, x)
    ELSE Append(InsertByCreated(SubSeq(sorted, 1, Len(sorted) - 1), x), Last(sorted))

RECURSIVE SortByCreated(_)
SortByCreated(l) ==
    IF l = <<>> THEN <<>>
    ELSE InsertByCreated(SortByCreated(SubSeq(l, 1, Len(l) - 1)), Last(l))

\* l[i] with Python's negative indices
PyIndex(l, i) == IF i >= 0 THEN l[i + 1] ELSE l[Len(l) + 1 + i]

\* random.randint(lo, hi), rnd being the generator's draw
randint(lo, hi, rnd) == lo + (rnd % (hi - lo + 1))

choose_thumbnail(thumbnail_setting, thumbnail_asset_list, rnd) ==
    IF thumbnail_setting \notin ALBUM_THUMBNAIL_SETTINGS_GLOBAL
    THEN IF \E i \in 1..Len(thumbnail_asset_list) :
                thumbnail_asset_list[i].originalPath = thumbnail_setting
         THEN thumbnail_asset_list[CHOOSE i \in 1..Len(thumbnail_asset_list) :
                  /\ thumbnail_asset_list[i].originalPath = thumbnail_setting
                  /\ \A j \in 1..(i - 1) : thumbnail_asset_list[j].originalPath # thumbnail_setting]
         ELSE NoAsset
    ELSE IF Len(thumbnail_asset_list) > 0
    THEN LET thumbnail_assets == SortByCreated(thumbnail_asset_list)
             i == IF thumbnail_setting \notin DOMAIN ALBUM_THUMBNAIL_STATIC_INDICES
                  THEN randint(0, Len(thumbnail_assets) - 1, rnd)
                  ELSE ALBUM_THUMBNAIL_STATIC_INDICES[thumbnail_setting]
         IN PyIndex(thumbnail_assets, i)
    ELSE NoAsset

\* The module-level variable `album` is an AlbumModel in the reconciliation loop
\* and a dict of the album listing in the later passes
AsModel(m) == [kind |-> "AlbumModel", model |-> m]
AsDict(m) == [kind |-> "dict", model |-> m]

\* the payload filled without the tests of the model's fields
patch_every_field(c, album_to_update, album, F, rnd) ==
    Sent(c, Request("patch", album_to_update.id, <<>>, "None",
                    [albumThumbnailAssetId |-> 0,
                     description |-> album.model.description,
                     order |-> album.model.sort_order,
                     isActivityEnabled |-> album_to_update.comments_and_likes_enabled,
                     fields |-> {"description", "order", "isActivityEnabled"}],
                    ~Fails(F, "patch", 1)))

update_album_properties(c, album_to_update, album, F, rnd) ==
    LET wants_thumb == /\ album_to_update.thumbnail_setting # "None"
                       /\ album_to_update.thumbnail_setting # ALBUM_THUMBNAIL_RANDOM_ALL
        c1 == IF wants_thumb THEN fetch_album_info(c, album_to_update.id, F, 1) ELSE c
        thumbnail_asset ==
            IF wants_thumb /\ c1.exc = "None"
            THEN choose_thumbnail(album_to_update.thumbnail_setting,
                                  [i \in 1..Len(c1.ret.assets) |-> AssetRec(c1.ret.assets[i])], rnd)
            ELSE NoAsset
        \* the warning of the else branch formats album.thumbnail_setting
        c2 == IF wants_thumb /\ c1.exc = "None" /\ thumbnail_asset = NoAsset /\ album.kind = "dict"
              THEN Raise(c1, "AttributeError") ELSE c1
        has_description == album_to_update.description # "None"
        c3 == IF c2.exc = "None" /\ has_description /\ album.kind = "dict"
              THEN Raise(c2, "AttributeError") ELSE c2
        has_order == album_to_update.sort_order # "None"
        c4 == IF c3.exc = "None" /\ has_order /\ album.kind = "dict"
              THEN Raise(c3, "AttributeError") ELSE c3
        has_activity == album_to_update.comments_and_likes_enabled # "None"
        data == [ albumThumbnailAssetId |-> thumbnail_asset.id,
                  description |-> IF has_description THEN album.model.description ELSE "None",
                  order |-> IF has_order THEN album.model.sort_order ELSE "None",
                  isActivityEnabled |-> IF has_activity
                                        THEN album_to_update.comments_and_likes_enabled ELSE "None",
                  fields |-> (IF thumbnail_asset # NoAsset THEN {"albumThumbnailAssetId"} ELSE {})
                             \cup (IF has_description THEN {"description"} ELSE {})
                             \cup (IF has_order THEN {"order"} ELSE {})
                             \cup (IF has_activity THEN {"isActivityEnabled"} ELSE {}) ]
    IN IF c4.exc # "None" THEN c4
       ELSE IF data.fields = {} THEN c4
       ELSE LET ok == ~Fails(F, "patch", 1) /\ AlbumExists(c4.server, album_to_update.id)
                c5 == Sent(c4, Request("patch", album_to_update.id, <<>>, "None", data, ok))
            IN IF ok THEN c5 ELSE Raise(c5, check_api_response(FALSE))

----------------------------------------------------------------------------
(* Sharing convergence *)

NoUser == [id |-> 0, name |-> "", email |-> ""]

find_user_by_name_or_email(name_or_email, user_list) ==
    IF \E i \in 1..Len(user_list) : name_or_email \in {user_list[i].name, user_list[i].email}
    THEN user_list[CHOOSE i \in 1..Len(user_list) :
             /\ name_or_email \in {user_list[i].name, user_list[i].email}
             /\ \A j \in 1..(i - 1) : name_or_email \notin {user_list[j].name, user_list[j].email}]
    ELSE NoUser

\* The server's album after a change of its albumUsers
SetAlbumUsers(srv, album_id, album_users) ==
    [srv EXCEPT !.albums[AlbumIndex(srv, album_id)].albumUsers = album_users]
AlbumUsersOf(srv, album_id) == srv.albums[AlbumIndex(srv, album_id)].albumUsers

\* DELETE albums/<id>/user/<user>
unshare_album_with_user(c, album_id_to_unshare, unshare_user_id, F, k) ==
    LET ok == ~Fails(F, "unshare", k) /\ AlbumExists(c.server, album_id_to_unshare)
        c1 == Sent(c, Request("unshare", album_id_to_unshare, <<unshare_user_id>>, "None", NoData, ok))
    IN IF ~ok THEN Raise(c1, check_api_response(FALSE))
       ELSE [c1 EXCEPT !.server =
                SetAlbumUsers(@, album_id_to_unshare,
                    SelectSeq(AlbumUsersOf(@, album_id_to_unshare),
                              LAMBDA au : au.user # unshare_user_id))]

\* PUT albums/<id>/user/<user>; the server accepts the roles it knows
update_album_share_user_role(c, album_id_to_share, share_user_id, share_user_role, a, F, k) ==
    IF a.share_role \notin SHARE_ROLES THEN Raise(c, "AssertionError")
    ELSE LET ok == /\ ~Fails(F, "role", k)
                   /\ AlbumExists(c.server, album_id_to_share)
                   /\ share_user_role \in SHARE_ROLES
             c1 == Sent(c, Request("role", album_id_to_share, <<share_user_id>>, share_user_role, NoData, ok))
         IN IF ~ok THEN Raise(c1, check_api_response(FALSE))
            ELSE [c1 EXCEPT !.server =
                     SetAlbumUsers(@, album_id_to_share,
                         LET us == AlbumUsersOf(@, album_id_to_share)
                         IN [i \in 1..Len(us) |->
                                IF us[i].user = share_user_id
                                THEN [user |-> share_user_id, role |-> share_user_role]
                                ELSE us[i]])]

\* PUT albums/<id>/users
share_album_with_user_and_role(c, album_id_to_share, user_ids_to_share_with, user_share_role, a, F, k) ==
    IF a.share_role \notin SHARE_ROLES THEN Raise(c, "AssertionError")
    ELSE LET ok == /\ ~Fails(F, "share", k)
                   /\ AlbumExists(c.server, album_id_to_share)
                   /\ user_share_role \in SHARE_ROLES
             c1 == Sent(c, Request("share", album_id_to_share, user_ids_to_share_with, user_share_role, NoData, ok))
         IN IF ~ok THEN Raise(c1, check_api_response(FALSE))
            ELSE [c1 EXCEPT !.server =
                     SetAlbumUsers(@, album_id_to_share,
                         AlbumUsersOf(@, album_id_to_share)
                         \o [i \in 1..Len(user_ids_to_share_with) |->
                                [user |-> user_ids_to_share_with[i], role |-> user_share_role]])]

\* try: <call> / except <classes>: log a warning
Guarded(c, classes) == IF Catches(c.exc, classes) THEN [c EXCEPT !.exc = "None"] ELSE c

\* share_users_to_roles_expected: user id -> role, for the users that exist
RECURSIVE ExpectedShares(_, _, _, _)
ExpectedShares(share_with, i, user_list, d) ==
    IF i > Len(share_with) THEN d
    ELSE LET share_user_in_immich == find_user_by_name_or_email(share_with[i].user, user_list)
         IN IF share_user_in_immich = NoUser
            THEN ExpectedShares(share_with, i + 1, user_list, d)
            ELSE ExpectedShares(share_with, i + 1, user_list,
                                DictSet(d, share_user_in_immich.id, share_with[i].role))

\* album_share_info: user id -> role, from the album's albumUsers
RECURSIVE ActualShares(_, _, _)
ActualShares(album_users, i, d) ==
    IF i > Len(album_users) THEN d
    ELSE ActualShares(album_users, i + 1, DictSet(d, album_users[i].user, album_users[i].role))

\* share_roles_to_users_expected: role -> users the album is not shared with yet
RECURSIVE GroupByRole(_, _, _, _)
GroupByRole(expected, i, actual, d) ==
    IF i > Len(expected) THEN d
    ELSE IF DictHas(actual, expected[i].key)
         THEN GroupByRole(expected, i + 1, actual, d)
         ELSE GroupByRole(expected, i + 1, actual,
                  DictSet(d, expected[i].value,
                          (IF DictHas(d, expected[i].value) THEN DictGet(d, expected[i].value) ELSE <<>>)
                          \o <<expected[i].key>>))

\* the role updates of the first loop, k counting the calls made
RECURSIVE UpdateRoles(_, _, _, _, _, _, _, _)
UpdateRoles(c, album_id, expected, i, actual, a, F, k) ==
    IF i > Len(expected) \/ c.exc # "None" THEN c
    ELSE IF DictHas(actual, expected[i].key) /\ DictGet(actual, expected[i].key) # expected[i].value
         THEN UpdateRoles(
                  Guarded(update_album_share_user_role(c, album_id, expected[i].key,
                                                       expected[i].value, a, F, k), {HTTPError}),
                  album_id, expected, i + 1, actual, a, F, k + 1)
         ELSE UpdateRoles(c, album_id, expected, i + 1, actual, a, F, k)

RECURSIVE UnshareUsers(_, _, _, _, _, _, _)
UnshareUsers(c, album_id, actual, i, expected, F, k) ==
    IF i > Len(actual) \/ c.exc # "None" THEN c
    ELSE IF ~DictHas(expected, actual[i].key)
         THEN UnshareUsers(
                  Guarded(unshare_album_with_user(c, album_id, actual[i].key, F, k), {HTTPError}),
                  album_id, actual, i + 1, expected, F, k + 1)
         ELSE UnshareUsers(c, album_id, actual, i + 1, expected, F, k)

RECURSIVE ShareGroups(_, _, _, _, _, _)
ShareGroups(c, album_id, groups, i, a, F) ==
    IF i > Len(groups) \/ c.exc # "None" THEN c
    ELSE ShareGroups(
             Guarded(share_album_with_user_and_role(c, album_id, groups[i].value, groups[i].key, a, F, i),
                     {"AssertionError", HTTPError}),
             album_id, groups, i + 1, a, F)

\* album is the module-level variable the function reads share_with from
update_album_shared_state(c, album_to_share, unshare_users, album, user_list, a, F) ==
    IF album.kind = "dict" THEN Raise(c, "AttributeError")
    ELSE
    LET share_users_to_roles_expected == ExpectedShares(album.model.share_with, 1, user_list, <<>>)
    IN IF Len(share_users_to_roles_expected) = 0 /\ ~unshare_users THEN c
       ELSE LET c1 == fetch_album_info(c, album_to_share.id, F, 2)
            IN IF c1.exc # "None" THEN c1
               ELSE LET album_share_info == ActualShares(c1.ret.albumUsers, 1, <<>>)
                        share_roles_to_users_expected ==
                            GroupByRole(share_users_to_roles_expected, 1, album_share_info, <<>>)
                        c2 == UpdateRoles(c1, album_to_share.id, share_users_to_roles_expected, 1,
                                          album_share_info, a, F, 1)
                        c3 == IF unshare_users
                              THEN UnshareUsers(c2, album_to_share.id, album_share_info, 1,
                                                share_users_to_roles_expected, F, 1)
                              ELSE c2
                    IN ShareGroups(c3, album_to_share.id, share_roles_to_users_expected, 1, a, F)

----------------------------------------------------------------------------
(* Offline asset removal and asset deletion *)

\* DELETE assets: the assets leave the library and every album
delete_assets(c, assets_to_delete, force, F) ==
    LET asset_ids_to_delete == [i \in 1..Len(assets_to_delete) |-> assets_to_delete[i].id]
        ok == ~Fails(F, "delete", 1)
        gone == Range(asset_ids_to_delete)
        c1 == Sent(c, Request("delete_assets", 0, asset_ids_to_delete,
                              IF force THEN "force" ELSE "None", NoData, ok))
    IN IF ~ok THEN Raise(c1, check_api_response(FALSE))
       ELSE [c1 EXCEPT
               !.server.albums = [i \in 1..Len(@) |->
                                     [@[i] EXCEPT !.assets = SelectSeq(@, LAMBDA x : x \notin gone)]],
               !.server.trashed = @ \ gone,
               !.server.offline = @ \ gone]

\* the removal without the client-side filter: every trashed asset is deleted
delete_every_trashed_asset(c, F) ==
    IF Fails(F, "search", 1) THEN Raise(c, raise_for_status(FALSE))
    ELSE LET ids == SeqOfSet(c.server.trashed)
         IN IF Len(ids) > 0
            THEN delete_assets(c, [i \in 1..Len(ids) |-> [id |-> ids[i], isOffline |-> TRUE]], TRUE, F)
            ELSE c

\* fetch_assets_with_options({'trashedAfter': ...}) and the client-side filter
trigger_offline_asset_removal_since_minor_version_116(c, F) ==
    IF Fails(F, "search", 1) THEN Raise(c, raise_for_status(FALSE))
    ELSE LET ids == SeqOfSet(c.server.trashed)
             trashed_assets == [i \in 1..Len(ids) |->
                                   [id |-> ids[i], isOffline |-> ids[i] \in c.server.offline]]
             offline_assets == SelectSeq(trashed_assets, LAMBDA asset : asset.isOffline)
         IN IF Len(offline_assets) > 0 THEN delete_assets(c, offline_assets, TRUE, F) ELSE c

\* the trigger handing every answer but 200 to check_api_response
raise_for_every_refusal(c, library_id, status) ==
    LET c1 == Sent(c, Request("removeOffline", library_id, <<>>, "None", NoData, status = 200))
    IN IF status = 403
       THEN Raise([c1 EXCEPT !.server.refused_jobs = Append(@, library_id)], check_api_response(FALSE))
       ELSE IF status # 200 THEN Raise(c1, check_api_response(FALSE))
       ELSE [c1 EXCEPT !.server.removal_jobs = Append(@, library_id)]

\* POST libraries/<id>/removeOffline; status is the server's answer: the server
\* starts the job (200), refuses it to a key without admin rights (403), or fails
trigger_offline_asset_removal_async(c, library_id, status) ==
    LET c1 == Sent(c, Request("removeOffline", library_id, <<>>, "None", NoData, status = 200))
    IN IF status = 403 THEN [c1 EXCEPT !.server.refused_jobs = Append(@, library_id)]
       ELSE IF status # 200 THEN Raise(c1, check_api_response(FALSE))
       ELSE [c1 EXCEPT !.server.removal_jobs = Append(@, library_id)]

RECURSIVE TriggerLibraries(_, _, _, _)
TriggerLibraries(c, libraries, i, statuses) ==
    IF i > Len(libraries) \/ c.exc # "None" THEN c
    ELSE TriggerLibraries(trigger_offline_asset_removal_async(c, libraries[i], statuses[i]),
                          libraries, i + 1, statuses)

trigger_offline_asset_removal_pre_minor_version_116(c, F, statuses) ==
    IF Fails(F, "libraries", 1) THEN Raise(c, check_api_response(FALSE))
    ELSE TriggerLibraries(c, c.server.libraries, 1, statuses)

trigger_offline_asset_removal(c, v, F, statuses) ==
    IF v.major = 1 /\ v.minor < 116
    THEN trigger_offline_asset_removal_pre_minor_version_116(c, F, statuses)
    ELSE trigger_offline_asset_removal_since_minor_version_116(c, F)

----------------------------------------------------------------------------
(* Start of both scripts *)

\* determine_api_key: read_file raises when the key file is missing
determine_api_key(a) ==
    IF a.api_key_type = "literal" THEN [ret |-> "key", exc |-> "None"]
    ELSE IF a.api_key_type = "file"
    THEN IF a.key_file_exists THEN [ret |-> "key", exc |-> "None"]
         ELSE [ret |-> "None", exc |-> "FileNotFoundError"]
    ELSE [ret |-> "None", exc |-> "None"]

\* answers of the version endpoints: found, empty (no error, no 200), not found,
\* server error
StatusCodes == {200, 204, 404, 500}

\* primary and legacy are the answers of server/version and server-info/version;
\* asked are the endpoints requested. After an answer that is neither 200 nor
\* an error check_api_response returns and 'return server_version' reads a
\* name that was never bound.
fetch_server_version(srv, primary, legacy) ==
    LET status == IF primary = 404 THEN legacy ELSE primary
        asked == IF primary = 404 THEN <<"server/version", "server-info/version">>
                 ELSE <<"server/version">>
    IN IF status = 200 THEN [ret |-> srv.version, exc |-> "None", asked |-> asked, status |-> status]
       ELSE IF check_api_response(status < 400) # "None"
            THEN [ret |-> NoVersion, exc |-> check_api_response(status < 400),
                  asked |-> asked, status |-> status]
            ELSE [ret |-> NoVersion, exc |-> "UnboundLocalError", asked |-> asked, status |-> status]

\* the version check of both scripts
version_too_old(v) == v.major = 1 /\ v.minor < 106

Ctx == [server |-> server, requests |-> requests, exc |-> "None", ret |-> 0]

RandomDraws == 0..(MaxAssets - 1)

\* the process ends: sys.exit(code), or an uncaught exception (status 1)
Exit(code, e) == /\ pc' = "exited" /\ exit_code' = code /\ exc' = e

Running(t, at) == tool = t /\ pc = at

Init ==
    /\ tool \in {"auto_album", "sync_library"}
    /\ \E S \in OptionSets(IF tool = "auto_album" THEN AutoAlbumOptions ELSE SyncLibraryOptions),
          E \in (IF tool = "auto_album" THEN RemoteNameSets ELSE {{}}),
          filled \in (IF tool = "auto_album" THEN BOOLEAN ELSE {FALSE}) :
          /\ args = ArgsOf(S)
          /\ server = ServerOf(S, E, filled)
          /\ manifest = ManifestOf(S)
    /\ baseline = server.albums
    /\ call = <<>>
    /\ pc = "determine_api_key"
    /\ exit_code = -1
    /\ exc = "None"
    /\ version = NoVersion
    /\ requests = <<>>
    /\ albums_to_create = <<>>
    /\ album_to_id = <<>>
    /\ created_albums = <<>>
    /\ asset_uuids_added = <<>>
    /\ albums = <<>>
    /\ users = <<>>
    /\ idx = 0
    /\ empty_album_count = 0
    /\ cleaned_album_count = 0
    /\ request_time = 0
    /\ run = 1

\* api_key = determine_api_key(...); if api_key is None: sys.exit(1)
DetermineApiKey ==
    /\ pc = "determine_api_key"
    /\ LET r == determine_api_key(args)
       IN IF r.exc # "None" THEN Exit(1, r.exc)
          ELSE IF r.ret = "None" THEN Exit(1, "None")
          ELSE /\ pc' = IF tool = "auto_album" THEN "check_flags" ELSE "fetch_version"
               /\ UNCHANGED <<exit_code, exc>>
    /\ UNCHANGED <<tool, args, version, server, manifest, requests, albums_to_create,
                   album_to_id, created_albums, asset_uuids_added, albums, users, idx,
                   empty_album_count, cleaned_album_count, request_time, run, baseline, call>>

\* if comments_and_likes_disabled and comments_and_likes_enabled: sys.exit(1)
CheckFlags ==
    /\ Running("auto_album", "check_flags")
    /\ IF args.comments_and_likes_disabled /\ args.comments_and_likes_enabled
       THEN Exit(1, "None")
       ELSE pc' = "fetch_version" /\ UNCHANGED <<exit_code, exc>>
    /\ UNCHANGED <<tool, args, version, server, manifest, requests, albums_to_create,
                   album_to_id, created_albums, asset_uuids_added, albums, users, idx,
                   empty_album_count, cleaned_album_count, request_time, run, baseline, call>>

\* version = fetch_server_version()
FetchServerVersion ==
    /\ pc = "fetch_version"
    /\ \E primary \in StatusCodes, legacy \in StatusCodes :
          LET r == fetch_server_version(server, primary, legacy)
          IN IF r.exc # "None"
             THEN Exit(1, r.exc) /\ UNCHANGED version
             ELSE /\ version' = r.ret
                  /\ pc' = "check_version"
                  /\ UNCHANGED <<exit_code, exc>>
    /\ UNCHANGED <<tool, args, server, manifest, requests, albums_to_create,
                   album_to_id, created_albums, asset_uuids_added, albums, users, idx,
                   empty_album_count, cleaned_album_count, request_time, run, baseline, call>>

\* if version['major'] == 1 and version['minor'] < 106: sys.exit(1)
CheckVersion ==
    /\ pc = "check_version"
    /\ IF version_too_old(version)
       THEN Exit(1, "None")
       ELSE pc' = "sync_library" /\ UNCHANGED <<exit_code, exc>>
    /\ UNCHANGED <<tool, args, version, server, manifest, requests, albums_to_create,
                   album_to_id, created_albums, asset_uuids_added, albums, users, idx,
                   empty_album_count, cleaned_album_count, request_time, run, baseline, call>>

----------------------------------------------------------------------------
(* immich_sync_library.py *)

\* POST libraries/<id>/scan of both scripts
PostScan(c, library_id, F) ==
    LET ok == ~Fails(F, "scan", 1)
        c1 == Sent(c, Request("scan", library_id, <<>>, "None", NoData, ok))
    IN IF ~ok THEN Raise(c1, check_api_response(FALSE))
       ELSE [c1 EXCEPT !.server.scanning = TRUE]

\* sync_library(library_id, wait) up to the first poll
SyncLibraryScan ==
    /\ Running("sync_library", "sync_library")
    /\ \E F \in Oracles({"scan"}) :
          LET c == PostScan(Ctx, 1, F)
          IN /\ server' = c.server
             /\ requests' = c.requests
             /\ request_time' = server.clock
             /\ IF c.exc # "None" THEN Exit(1, c.exc)
                ELSE /\ pc' = IF args.wait THEN "poll" ELSE "done"
                     /\ exit_code' = IF args.wait THEN exit_code ELSE 0
                     /\ UNCHANGED exc
    /\ UNCHANGED <<tool, args, version, manifest, albums_to_create, album_to_id,
                   created_albums, asset_uuids_added, albums, users, idx,
                   empty_album_count, cleaned_album_count, run, baseline, call>>

\* the time after a sleep(1); rounds that see no later refreshedAt are counted
\* up to MaxClock only
Tick(srv) == [srv EXCEPT !.clock = IF @ < MaxClock THEN @ + 1 ELSE @]

\* a wait loop that ends after its first answered poll, whatever refreshedAt is
SyncLibraryPollOnce ==
    /\ Running("sync_library", "poll")
    /\ server.clock < MaxClock \/ server.refreshedAt > request_time
    /\ \E F \in Oracles({"library"}) :
          /\ server' = Tick(server)
          /\ IF Fails(F, "library", 1) THEN Exit(1, check_api_response(FALSE))
             ELSE pc' = "done" /\ exit_code' = 0 /\ UNCHANGED exc
    /\ UNCHANGED <<tool, args, version, manifest, requests, albums_to_create, album_to_id,
                   created_albums, asset_uuids_added, albums, users, idx,
                   empty_album_count, cleaned_album_count, request_time, run, baseline, call>>

\* one round of the wait loop: sleep(1), GET libraries/<id>, compare refreshedAt
SyncLibraryPoll ==
    /\ Running("sync_library", "poll")
    /\ server.clock < MaxClock \/ server.refreshedAt > request_time
    /\ \E F \in Oracles({"library"}) :
          /\ server' = Tick(server)
          /\ IF Fails(F, "library", 1) THEN Exit(1, check_api_response(FALSE))
             ELSE IF server.refreshedAt > request_time
                  THEN pc' = "done" /\ exit_code' = 0 /\ UNCHANGED exc
                  ELSE UNCHANGED <<pc, exit_code, exc>>
    /\ UNCHANGED <<tool, args, version, manifest, requests, albums_to_create, album_to_id,
                   created_albums, asset_uuids_added, albums, users, idx,
                   empty_album_count, cleaned_album_count, request_time, run, baseline, call>>

\* the server finishes the library scan
ServerScanDone ==
    /\ Running("sync_library", "poll")
    /\ server.scanning
    /\ server' = [server EXCEPT !.scanning = FALSE, !.refreshedAt = server.clock]
    /\ UNCHANGED <<tool, args, pc, exit_code, exc, version, manifest, requests,
                   albums_to_create, album_to_id, created_albums, asset_uuids_added,
                   albums, users, idx, empty_album_count, cleaned_album_count,
                   request_time, run, baseline, call>>

----------------------------------------------------------------------------
(* immich_auto_album.py: from the library sync to the album listing *)

\* if library_to_sync is not None: sync_library(library_to_sync)
SyncLibraryStep ==
    /\ Running("auto_album", "sync_library")
    /\ IF args.sync_library = 0
       THEN pc' = "build" /\ UNCHANGED <<server, requests, exit_code, exc>>
       ELSE \E F \in Oracles({"scan"}) :
               LET ok == ~Fails(F, "scan", 1)
                   c == Sent(Ctx, Request("scan", args.sync_library, <<>>, "None", NoData, ok))
               IN /\ requests' = c.requests
                  /\ IF ok
                     THEN /\ server' = [server EXCEPT !.scanning = TRUE]
                          /\ pc' = "build"
                          /\ UNCHANGED <<exit_code, exc>>
                     ELSE Exit(1, raise_for_status(FALSE)) /\ UNCHANGED server
    /\ UNCHANGED <<tool, args, version, manifest, albums_to_create, album_to_id,
                   created_albums, asset_uuids_added, albums, users, idx,
                   empty_album_count, cleaned_album_count, request_time, run, baseline, call>>

\* fetch_assets(not find_assets_in_albums, find_archived_assets), build_id_mapping,
\* build_album_list and the sort by name
BuildCatalog ==
    /\ Running("auto_album", "build")
    /\ \E F \in Oracles({"search"}) :
          LET c == fetch_assets(Ctx, ~args.find_assets_in_albums, FALSE, args, F)
          IN IF c.exc # "None"
             THEN Exit(1, c.exc) /\ UNCHANGED albums_to_create
             ELSE /\ albums_to_create' =
                        SortedByKey(build_album_list(build_id_mapping(c.ret), manifest, args))
                  /\ pc' = "confirm"
                  /\ UNCHANGED <<exit_code, exc>>
    /\ UNCHANGED <<tool, args, version, server, manifest, requests, album_to_id,
                   created_albums, asset_uuids_added, albums, users, idx,
                   empty_album_count, cleaned_album_count, request_time, run, baseline, call>>

\* the confirmation step without the exit in a container
ConfirmWithoutExit ==
    /\ Running("auto_album", "confirm")
    /\ pc' = "list_albums"
    /\ UNCHANGED <<tool, args, exit_code, exc, version, server, manifest, requests,
                   albums_to_create, album_to_id, created_albums, asset_uuids_added,
                   albums, users, idx, empty_album_count, cleaned_album_count,
                   request_time, run, baseline, call>>

\* if not unattended: exit 0 in a container, else wait for Enter (or Ctrl+C)
Confirm ==
    /\ Running("auto_album", "confirm")
    /\ IF args.unattended THEN pc' = "list_albums" /\ UNCHANGED <<exit_code, exc>>
       ELSE IF args.is_docker THEN Exit(0, "None")
       ELSE \E enter \in BOOLEAN :
               IF enter THEN pc' = "list_albums" /\ UNCHANGED <<exit_code, exc>>
               ELSE Exit(130, "KeyboardInterrupt")
    /\ UNCHANGED <<tool, args, version, server, manifest, requests, albums_to_create,
                   album_to_id, created_albums, asset_uuids_added, albums, users, idx,
                   empty_album_count, cleaned_album_count, request_time, run, baseline, call>>

\* the comprehension left out: no listed album is known by name
AlbumToIdEmpty(listing, i, d) == d

\* album_to_id = {album['albumName']: album['id'] for album in albums}
RECURSIVE AlbumToId(_, _, _)
AlbumToId(listing, i, d) ==
    IF i > Len(listing) THEN d
    ELSE AlbumToId(listing, i + 1, DictSet(d, listing[i].albumName, listing[i].id))

\* for album in albums_to_create.values(): set the id of the albums that exist
AdoptIds(desired, ids) ==
    [i \in 1..Len(desired) |->
        IF DictHas(ids, get_final_name(desired[i].value))
        THEN [desired[i] EXCEPT !.value.id = DictGet(ids, get_final_name(desired[i].value))]
        ELSE desired[i]]

\* albums = fetch_albums(), album_to_id, the ids of existing albums, users = fetch_users()
ListAlbums ==
    /\ Running("auto_album", "list_albums")
    /\ \E F \in Oracles({"albums", "users"}) :
          LET c1 == fetch_albums(Ctx, F, 1)
              c2 == IF c1.exc = "None" THEN fetch_users(c1, F) ELSE c1
          IN IF c2.exc # "None"
             THEN /\ Exit(1, c2.exc)
                  /\ UNCHANGED <<albums, album_to_id, albums_to_create, users, idx>>
             ELSE /\ albums' = c1.ret
                  /\ album_to_id' = AlbumToId(c1.ret, 1, <<>>)
                  /\ albums_to_create' = AdoptIds(albums_to_create, album_to_id')
                  /\ users' = c2.ret
                  /\ idx' = 1
                  /\ pc' = IF Len(albums_to_create) = 0 THEN "archive" ELSE "loop"
                  /\ UNCHANGED <<exit_code, exc>>
    /\ UNCHANGED <<tool, args, version, server, manifest, requests, created_albums,
                   asset_uuids_added, empty_album_count, cleaned_album_count,
                   request_time, run, baseline, call>>

----------------------------------------------------------------------------
(* The reconciliation loop *)

\* the test left out: every desired album is created
create_always(album, ids) == TRUE

\* if not album.get_final_name() in album_to_id
must_create(album, ids) == ~DictHas(ids, get_final_name(album))

\* the tests of the two updates left out: every album is updated
update_properties_always(a, album, created) == TRUE
update_sharing_as_properties(a, album, created) ==
    a.update_album_props_mode > 0 \/ get_final_name(album) \in Range(created)

\* if update_album_props_mode > 0 or (album in created_albums)
must_update_properties(a, album, created) ==
    a.update_album_props_mode > 0 \/ get_final_name(album) \in Range(created)

\* if update_album_props_mode == 2 or (album in created_albums)
must_update_sharing(a, album, created) ==
    a.update_album_props_mode = 2 \/ get_final_name(album) \in Range(created)

\* The loop body works on st: the client context c, the album model of this
\* pass, and the globals album_to_id, created_albums and asset_uuids_added.

\* album.id = create_album(...); created_albums.append(album); album_to_id[name] = album.id
AlbumCreated(st, c1) ==
    IF c1.exc # "None" THEN [st EXCEPT !.c = c1]
    ELSE [st EXCEPT !.c = c1,
                    !.album.id = c1.ret,
                    !.album_to_id = DictSet(@, get_final_name(st.album), c1.ret),
                    !.created_albums = Append(@, get_final_name(st.album))]

\* if not album.get_final_name() in album_to_id: create; else: album.id = album_to_id[...]
CreateOrAdopt(st, F) ==
    IF must_create(st.album, st.album_to_id)
    THEN AlbumCreated(st, create_album(st.c, get_final_name(st.album), F))
    ELSE [st EXCEPT !.album.id = DictGet(st.album_to_id, get_final_name(st.album))]

\* if len(assets_added) > 0: asset_uuids_added += assets_added
\* the loop gathering every id it asked to add, whatever the answer per id
AssetsAsked(st, c2) ==
    IF c2.exc = "None" /\ Len(get_asset_uuids(st.album)) > 0
    THEN [st EXCEPT !.c = c2, !.asset_uuids_added = @ \o get_asset_uuids(st.album)]
    ELSE [st EXCEPT !.c = c2]

AssetsAdded(st, c2) ==
    IF c2.exc = "None" /\ Len(c2.ret) > 0
    THEN [st EXCEPT !.c = c2, !.asset_uuids_added = @ \o c2.ret]
    ELSE [st EXCEPT !.c = c2]

\* assets_added = add_assets_to_album(album.id, album.get_asset_uuids())
AddAssets(st, a, F) ==
    IF st.c.exc # "None" THEN st
    ELSE AssetsAdded(st, add_assets_to_album(st.c, st.album.id, get_asset_uuids(st.album), a, F))

\* try: update_album_properties(album) except HTTPError: logging.error(...)
UpdateProperties(st, a, F, rnd) ==
    IF st.c.exc = "None" /\ must_update_properties(a, st.album, st.created_albums)
    THEN [st EXCEPT !.c = Guarded(update_album_properties(st.c, st.album, AsModel(st.album),
                                                          F, rnd), {HTTPError})]
    ELSE st

\* update_album_shared_state(album, True)
UpdateSharing(st, user_list, a, F) ==
    IF st.c.exc = "None" /\ must_update_sharing(a, st.album, st.created_albums)
    THEN [st EXCEPT !.c = update_album_shared_state(st.c, st.album, TRUE, AsModel(st.album),
                                                    user_list, a, F)]
    ELSE st

\* One pass of the loop body
ProcessAlbumBody(st, user_list, a, F, rnd) ==
    UpdateSharing(UpdateProperties(AddAssets(CreateOrAdopt(st, F), a, F), a, F, rnd),
                  user_list, a, F)

\* the globals after the pass; an exception that left the loop ends the run
ProcessAlbumDone(r) ==
    /\ server' = r.c.server
    /\ requests' = r.c.requests
    /\ albums_to_create' = [albums_to_create EXCEPT ![idx].value = r.album]
    /\ album_to_id' = r.album_to_id
    /\ created_albums' = r.created_albums
    /\ asset_uuids_added' = r.asset_uuids_added
    /\ IF r.c.exc # "None" THEN Exit(1, r.c.exc) /\ UNCHANGED idx
       ELSE /\ idx' = idx + 1
            /\ pc' = IF idx = Len(albums_to_create) THEN "archive" ELSE "loop"
            /\ UNCHANGED <<exit_code, exc>>

LoopFailKinds == {"create", "add", "album_info", "patch", "role", "unshare", "share"}

ProcessAlbum ==
    /\ Running("auto_album", "loop")
    /\ idx <= Len(albums_to_create)
    /\ \E F \in Oracles(LoopFailKinds), rnd \in RandomDraws :
          ProcessAlbumDone(ProcessAlbumBody(
              [c |-> Ctx, album |-> albums_to_create[idx].value, album_to_id |-> album_to_id,
               created_albums |-> created_albums, asset_uuids_added |-> asset_uuids_added],
              users, args, F, rnd))
    /\ UNCHANGED <<tool, args, version, manifest, albums, users, empty_album_count,
                   cleaned_album_count, request_time, run, baseline, call>>

\* if archive and len(asset_uuids_added) > 0: set_assets_archived(asset_uuids_added, True)
ArchiveStep ==
    /\ Running("auto_album", "archive")
    /\ IF args.archive /\ Len(asset_uuids_added) > 0
       THEN \E F \in Oracles({"archive"}) :
               LET c == set_assets_archived(Ctx, asset_uuids_added, TRUE, F)
               IN /\ server' = c.server
                  /\ requests' = c.requests
                  /\ IF c.exc # "None" THEN Exit(1, c.exc)
                     ELSE pc' = "random_all" /\ UNCHANGED <<exit_code, exc>>
       ELSE pc' = "random_all" /\ UNCHANGED <<server, requests, exit_code, exc>>
    /\ UNCHANGED <<tool, args, version, manifest, albums_to_create, album_to_id,
                   created_albums, asset_uuids_added, albums, users, idx,
                   empty_album_count, cleaned_album_count, request_time, run, baseline, call>>

----------------------------------------------------------------------------
(* Post actions *)

\* if set_album_thumbnail == ALBUM_THUMBNAIL_RANDOM_ALL: albums = fetch_albums()
RandomAllStart ==
    /\ Running("auto_album", "random_all")
    /\ IF args.set_album_thumbnail = ALBUM_THUMBNAIL_RANDOM_ALL
       THEN \E F \in Oracles({"albums"}) :
               LET c == fetch_albums(Ctx, F, 1)
               IN IF c.exc # "None" THEN Exit(1, c.exc) /\ UNCHANGED <<albums, idx>>
                  ELSE /\ albums' = c.ret
                       /\ idx' = 1
                       /\ pc' = IF Len(c.ret) = 0 THEN "offline" ELSE "random_all_loop"
                       /\ UNCHANGED <<exit_code, exc>>
       ELSE pc' = "offline" /\ UNCHANGED <<albums, idx, exit_code, exc>>
    /\ UNCHANGED <<tool, args, version, server, manifest, requests, albums_to_create,
                   album_to_id, created_albums, asset_uuids_added, users,
                   empty_album_count, cleaned_album_count, request_time, run, baseline, call>>

\* the body of the random-all loop for the listed album
RandomAllBody(c, album, F, rnd) ==
    LET c1 == fetch_album_info(c, album.id, F, 2)
    IN IF c1.exc # "None" THEN c1
       ELSE LET album_model ==
                    [AlbumModel(album.albumName) EXCEPT
                        !.id = album.id,
                        !.assets = [i \in 1..Len(c1.ret.assets) |-> AssetRec(c1.ret.assets[i])],
                        !.thumbnail_setting = "random"]
            IN update_album_properties(c1, album_model, AsDict(album), F, rnd)

RandomAllAlbum ==
    /\ Running("auto_album", "random_all_loop")
    /\ idx <= Len(albums)
    /\ \E F \in Oracles({"album_info", "patch"}), rnd \in RandomDraws :
          LET c == RandomAllBody(Ctx, albums[idx], F, rnd)
          IN /\ server' = c.server
             /\ requests' = c.requests
             /\ IF c.exc # "None" THEN Exit(1, c.exc) /\ UNCHANGED idx
                ELSE /\ idx' = idx + 1
                     /\ pc' = IF idx = Len(albums) THEN "offline" ELSE "random_all_loop"
                     /\ UNCHANGED <<exit_code, exc>>
    /\ UNCHANGED <<tool, args, version, manifest, albums_to_create, album_to_id,
                   created_albums, asset_uuids_added, albums, users,
                   empty_album_count, cleaned_album_count, request_time, run, baseline, call>>

RemovalStatuses == {200, 403, 500}

\* if sync_mode == 2: trigger_offline_asset_removal()
OfflineRemoval ==
    /\ Running("auto_album", "offline")
    /\ IF args.sync_mode = 2
       THEN \E F \in Oracles({"search", "delete", "libraries"}), statuses \in [1..2 -> RemovalStatuses] :
               LET c == trigger_offline_asset_removal(Ctx, version, F, statuses)
               IN /\ server' = c.server
                  /\ requests' = c.requests
                  /\ IF c.exc # "None" THEN Exit(1, c.exc)
                     ELSE pc' = "delete_empty" /\ UNCHANGED <<exit_code, exc>>
       ELSE pc' = "delete_empty" /\ UNCHANGED <<server, requests, exit_code, exc>>
    /\ UNCHANGED <<tool, args, version, manifest, albums_to_create, album_to_id,
                   created_albums, asset_uuids_added, albums, users, idx,
                   empty_album_count, cleaned_album_count, request_time, run, baseline, call>>

\* if sync_mode >= 1: albums = fetch_albums(), the counters start at 0
DeleteEmptyStart ==
    /\ Running("auto_album", "delete_empty")
    /\ IF args.sync_mode >= 1
       THEN \E F \in Oracles({"albums"}) :
               LET c == fetch_albums(Ctx, F, 1)
               IN IF c.exc # "None"
                  THEN /\ Exit(1, c.exc)
                       /\ UNCHANGED <<albums, idx, empty_album_count, cleaned_album_count>>
                  ELSE /\ albums' = c.ret
                       /\ idx' = 1
                       /\ empty_album_count' = 0
                       /\ cleaned_album_count' = 0
                       /\ pc' = IF Len(c.ret) = 0 THEN "done" ELSE "delete_loop"
                       /\ exit_code' = IF Len(c.ret) = 0 THEN 0 ELSE exit_code
                       /\ UNCHANGED exc
       ELSE /\ pc' = "done"
            /\ exit_code' = 0
            /\ UNCHANGED <<albums, idx, empty_album_count, cleaned_album_count, exc>>
    /\ UNCHANGED <<tool, args, version, server, manifest, requests, albums_to_create,
                   album_to_id, created_albums, asset_uuids_added, users,
                   request_time, run, baseline, call>>

\* the body of the delete loop for the listed album
DeleteEmptyBody(c, album, empty_count, cleaned_count, F) ==
    IF album.assetCount = 0
    THEN LET c1 == delete_album(c, album, F, 1)
         IN [c |-> c1, empty_album_count |-> empty_count + 1,
             cleaned_album_count |-> IF c1.exc = "None" /\ c1.ret THEN cleaned_count + 1
                                     ELSE cleaned_count]
    ELSE [c |-> c, empty_album_count |-> empty_count, cleaned_album_count |-> cleaned_count]

DeleteEmptyAlbum ==
    /\ Running("auto_album", "delete_loop")
    /\ idx <= Len(albums)
    /\ \E F \in Oracles({"delete"}) :
          LET r == DeleteEmptyBody(Ctx, albums[idx], empty_album_count, cleaned_album_count, F)
          IN /\ server' = r.c.server
             /\ requests' = r.c.requests
             /\ empty_album_count' = r.empty_album_count
             /\ cleaned_album_count' = r.cleaned_album_count
             /\ IF r.c.exc # "None" THEN Exit(1, r.c.exc) /\ UNCHANGED idx
                ELSE /\ idx' = idx + 1
                     /\ pc' = IF idx = Len(albums) THEN "done" ELSE "delete_loop"
                     /\ exit_code' = IF idx = Len(albums) THEN 0 ELSE exit_code
                     /\ UNCHANGED exc
    /\ UNCHANGED <<tool, args, version, manifest, albums_to_create, album_to_id,
                   created_albums, asset_uuids_added, albums, users, request_time,
                   run, baseline, call>>

----------------------------------------------------------------------------
(* The functions applied on their own                                        *)
(*                                                                           *)
(* A second specification applies single functions of immich_auto_album.py   *)
(* to a server holding one album, with arguments drawn from bounded sets.    *)
(* Each application appends a record to call: the function, its arguments,   *)
(* the server before it, the requests the server answers with an error, the  *)
(* requests the function sent, and what it returned or raised.               *)

MaxCalls == 2        \* applications followed per run of the second specification

\* albumUsers lists over the server's users, in both orders
UserRoles == {[user |-> ServerUsers[i].id, role |-> r] : i \in 1..Len(ServerUsers), r \in SHARE_ROLES}
UserRoleLists ==
    {<<>>} \cup {<<x>> : x \in UserRoles}
           \cup {<<p[1], p[2]>> : p \in {q \in UserRoles \X UserRoles : q[1].user # q[2].user}}

\* asset id lists, repetitions included
IdLists == UNION {[1..n -> AssetIds] : n \in 0..MaxAssets}

CallServers ==
    {[ServerOf({}, {1}, FALSE) EXCEPT !.albums[1].assets = SeqOfSet(members),
                                      !.albums[1].albumUsers = album_users,
                                      !.no_permission = denied] :
        members \in SUBSET AssetIds, album_users \in UserRoleLists,
        denied \in {{}, {MaxAssets}}}

\* servers whose trash holds the assets of trashed; the assets of offline carry
\* the offline flag
TrashServers ==
    {[ServerOf({}, {1}, TRUE) EXCEPT !.trashed = trashed, !.offline = offline] :
        trashed \in SUBSET AssetIds, offline \in SUBSET AssetIds}

\* share_with lists as set_album_properties_in_model leaves them: alice, an
\* unknown user and bob (by email), each left out or given a role
ShareEntry(user, role) == IF role = "None" THEN <<>> ELSE <<[user |-> user, role |-> role]>>
ShareWithLists ==
    {ShareEntry("alice", ra) \o ShareEntry("ghost", rg) \o ShareEntry("bob@x", rb) :
        ra \in SHARE_ROLES \cup {"None"}, rg \in {"None", "viewer"},
        rb \in SHARE_ROLES \cup {"None"}}

\* album models with properties set or unset
ThumbnailInputs == {"None", "first", "last", "random", ALBUM_THUMBNAIL_RANDOM_ALL,
                    PathNames[1], "/lib/none.jpg"}
PropertyModels ==
    {[AlbumModel(1) EXCEPT !.thumbnail_setting = t, !.description = d, !.sort_order = o,
                           !.comments_and_likes_enabled = e] :
        t \in ThumbnailInputs, d \in {"None", "text"}, o \in {"None", "asc"},
        e \in {"None", "True", "False"}}

CallCtx == [server |-> server, requests |-> <<>>, exc |-> "None", ret |-> "None", pages |-> <<>>]

CallRecord(fn, model, ids, unshare, F, c) ==
    [fn |-> fn, model |-> model, ids |-> ids, unshare |-> unshare, before |-> server,
     failed |-> F, sent |-> c.requests, ret |-> IF c.exc = "None" THEN c.ret ELSE "None", exc |-> c.exc]

\* the function has returned or raised
Called(fn, model, ids, unshare, F, c) ==
    /\ call' = Append(call, CallRecord(fn, model, ids, unshare, F, c))
    /\ server' = c.server
    /\ requests' = requests \o c.requests
    /\ UNCHANGED <<tool, args, pc, exit_code, exc, version, manifest, albums_to_create,
                   album_to_id, created_albums, asset_uuids_added, albums, users, idx,
                   empty_album_count, cleaned_album_count, request_time, run, baseline>>

CanCall == tool = "functions" /\ Len(call) < MaxCalls

\* the album of the server as the loop holds it: a model with its id
TheAlbum(m) == [m EXCEPT !.id = baseline[1].id]

InitCalls ==
    /\ tool = "functions"
    /\ server \in CallServers \cup TrashServers
    /\ args = ArgsOf({})
    /\ users = ServerUsers
    /\ manifest = <<>>
    /\ baseline = server.albums
    /\ call = <<>>
    /\ pc = "call"
    /\ exit_code = -1
    /\ exc = "None"
    /\ version = NoVersion
    /\ requests = <<>>
    /\ albums_to_create = <<>>
    /\ album_to_id = <<>>
    /\ created_albums = <<>>
    /\ asset_uuids_added = <<>>
    /\ albums = <<>>
    /\ idx = 0
    /\ empty_album_count = 0
    /\ cleaned_album_count = 0
    /\ request_time = 0
    /\ run = 1

\* add_assets_to_album(album.id, ids), a first time or again with the same ids
CallAddAssetsToAlbum ==
    /\ CanCall
    /\ \E ids \in IdLists, F \in Oracles({"add"}) :
          /\ call # <<>> => Last(call).fn = "add_assets_to_album" /\ Last(call).ids = ids
          /\ Called("add_assets_to_album", TheAlbum(AlbumModel(1)), ids, FALSE, F,
                    add_assets_to_album(CallCtx, baseline[1].id, ids, args, F))

\* update_album_shared_state(album, unshare_users), album being the loop's variable
CallUpdateAlbumSharedState ==
    /\ CanCall /\ call = <<>>
    /\ \E share_with \in ShareWithLists, unshare_users \in BOOLEAN,
          F \in Oracles({"album_info", "role", "unshare", "share"}) :
          Called("update_album_shared_state",
                 TheAlbum([AlbumModel(1) EXCEPT !.share_with = share_with]), <<>>, unshare_users, F,
                 update_album_shared_state(
                     CallCtx, TheAlbum([AlbumModel(1) EXCEPT !.share_with = share_with]),
                     unshare_users, AsModel(TheAlbum([AlbumModel(1) EXCEPT !.share_with = share_with])),
                     users, args, F))

\* update_album_properties(album), album being the loop's variable
CallUpdateAlbumProperties ==
    /\ CanCall /\ call = <<>>
    /\ \E m \in PropertyModels, F \in Oracles({"album_info", "patch"}), rnd \in RandomDraws :
          Called("update_album_properties", TheAlbum(m), <<>>, FALSE, F,
                 update_album_properties(CallCtx, TheAlbum(m), AsModel(TheAlbum(m)), F, rnd))

\* update_album_properties(album_model) as the random-all pass calls it: the model
\* is new and has the thumbnail setting 'random', album is an entry of fetch_albums()
RandomAllModel ==
    TheAlbum([AlbumModel(baseline[1].albumName) EXCEPT
                 !.assets = [i \in 1..Len(server.albums[1].assets) |->
                                AssetRec(server.albums[1].assets[i])],
                 !.thumbnail_setting = "random"])

CallUpdateAlbumPropertiesOfListed ==
    /\ CanCall /\ call = <<>>
    /\ \E F \in Oracles({"album_info", "patch"}), rnd \in RandomDraws :
          Called("update_album_properties", RandomAllModel, <<>>, FALSE, F,
                 update_album_properties(
                     CallCtx, RandomAllModel,
                     AsDict([id |-> baseline[1].id, albumName |-> baseline[1].albumName,
                             assetCount |-> Len(server.albums[1].assets)]),
                     F, rnd))

\* delete_album(album), album being an entry of fetch_albums()
CallDeleteAlbum ==
    /\ CanCall
    /\ call # <<>> => Last(call).fn = "delete_album"
    /\ \E F \in Oracles({"delete"}) :
          Called("delete_album", TheAlbum(AlbumModel(1)), <<>>, FALSE, F,
                 delete_album(CallCtx, [id |-> baseline[1].id, albumName |-> baseline[1].albumName],
                              F, 1))

\* trigger_offline_asset_removal_since_minor_version_116()
CallTriggerOfflineAssetRemovalSince116 ==
    /\ CanCall /\ call = <<>>
    /\ \E F \in Oracles({"search", "delete"}) :
          Called("trigger_offline_asset_removal_since_minor_version_116",
                 TheAlbum(AlbumModel(1)), <<>>, FALSE, F,
                 trigger_offline_asset_removal_since_minor_version_116(CallCtx, F))

MaxCandidates == 3   \* assets in a candidate list handed to choose_thumbnail

\* candidate lists: distinct assets in any order, some with equal creation times
CandidateIds == 1..(MaxAssets + 2)
CandidateLists ==
    {[i \in 1..Len(l) |-> AssetRec(l[i])] :
        l \in {q \in UNION {[1..n -> CandidateIds] : n \in 0..MaxCandidates} :
                  \A i, j \in 1..Len(q) : q[i] = q[j] => i = j}}

\* choose_thumbnail(thumbnail_setting, thumbnail_asset_list)
CallChooseThumbnail ==
    /\ CanCall /\ call = <<>>
    /\ \E setting \in ALBUM_THUMBNAIL_SETTINGS \cup {PathNames[1]}, l \in CandidateLists,
          rnd \in RandomDraws :
          Called("choose_thumbnail",
                 [AlbumModel(1) EXCEPT !.thumbnail_setting = setting, !.assets = l], <<>>, FALSE, {},
                 [CallCtx EXCEPT !.ret = choose_thumbnail(setting, l, rnd)])

\* roles handed to the sharing mutations: the two the server knows and another
RoleInputs == SHARE_ROLES \cup {"admin"}

\* the arguments of a sharing mutation as the record of the call keeps them
RoleCallModel(role) == TheAlbum([AlbumModel(1) EXCEPT !.share_with = <<[user |-> "", role |-> role]>>])

\* update_album_share_user_role(album.id, user id, role)
CallUpdateAlbumShareUserRole ==
    /\ CanCall /\ call = <<>>
    /\ \E u \in 1..Len(ServerUsers), role \in RoleInputs, F \in Oracles({"role"}) :
          Called("update_album_share_user_role", RoleCallModel(role), <<ServerUsers[u].id>>, FALSE, F,
                 update_album_share_user_role(CallCtx, baseline[1].id, ServerUsers[u].id, role,
                                              args, F, 1))

\* share_album_with_user_and_role(album.id, user ids, role)
CallShareAlbumWithUserAndRole ==
    /\ CanCall /\ call = <<>>
    /\ \E u \in 1..Len(ServerUsers), role \in RoleInputs, F \in Oracles({"share"}) :
          Called("share_album_with_user_and_role", RoleCallModel(role), <<ServerUsers[u].id>>, FALSE, F,
                 share_album_with_user_and_role(CallCtx, baseline[1].id, <<ServerUsers[u].id>>, role,
                                                args, F, 1))

\* values of --fetch-chunk-size: below, at and above the length of the result
FetchChunkSizes == {1, 2, 5000}

\* fetch_assets_with_options(search_options) against a server holding the
\* matching assets in the order of the list
CallFetchAssetsWithOptions ==
    /\ CanCall /\ call = <<>>
    /\ \E n \in FetchChunkSizes, l \in CandidateLists, F \in Oracles({"search"}) :
          LET a == [args EXCEPT !.fetch_chunk_size = n]
              c == fetch_assets_with_options(CallCtx, l,
                                             search_page_size(a), 1, <<>>, F)
          IN /\ call' = Append(call, [CallRecord("fetch_assets_with_options", a, l, FALSE, F, c)
                                          EXCEPT !.sent = c.pages])
             /\ UNCHANGED <<tool, args, pc, exit_code, exc, version, server, manifest, requests,
                            albums_to_create, album_to_id, created_albums, asset_uuids_added,
                            albums, users, idx, empty_album_count, cleaned_album_count,
                            request_time, run, baseline>>

\* fetch_server_version() against endpoints answering primary and legacy
CallFetchServerVersion ==
    /\ CanCall /\ call = <<>>
    /\ \E primary \in StatusCodes, legacy \in StatusCodes :
          LET r == fetch_server_version(server, primary, legacy)
          IN Called("fetch_server_version", [primary |-> primary, legacy |-> legacy, status |-> r.status],
                    r.asked, FALSE, {}, [CallCtx EXCEPT !.ret = r.ret, !.exc = r.exc])

\* values of --chunk-size and id lists longer than a chunk, repetitions included
ChunkSizes == {ChunkSize, ChunkSize + 1}
LongIdLists == UNION {[1..n -> AssetIds] : n \in 0..(MaxAssets + 1)}

\* add_assets_to_album(album.id, ids) with number_of_images_per_request = n
CallAddAssetsInChunks ==
    /\ CanCall /\ call = <<>> /\ server \in CallServers
    /\ \E n \in ChunkSizes, ids \in LongIdLists, F \in Oracles({"add"}) :
          Called("add_assets_to_album in chunks", [args EXCEPT !.chunk_size = n], ids, FALSE, F,
                 add_assets_to_album(CallCtx, baseline[1].id, ids, [args EXCEPT !.chunk_size = n], F))

NextCalls ==
    \/ CallAddAssetsInChunks
    \/ CallFetchServerVersion
    \/ CallFetchAssetsWithOptions
    \/ CallAddAssetsToAlbum
    \/ CallUpdateAlbumSharedState
    \/ CallUpdateAlbumProperties
    \/ CallUpdateAlbumPropertiesOfListed
    \/ CallDeleteAlbum
    \/ CallTriggerOfflineAssetRemovalSince116
    \/ CallUpdateAlbumShareUserRole
    \/ CallShareAlbumWithUserAndRole
    \/ CallChooseThumbnail

SpecCalls == InitCalls /\ [][NextCalls]_vars

----------------------------------------------------------------------------
(* Specifications *)

Next ==
    \/ DetermineApiKey
    \/ CheckFlags
    \/ FetchServerVersion
    \/ CheckVersion
    \/ SyncLibraryScan
    \/ SyncLibraryPoll
    \/ ServerScanDone
    \/ SyncLibraryStep
    \/ BuildCatalog
    \/ Confirm
    \/ ListAlbums
    \/ ProcessAlbum
    \/ ArchiveStep
    \/ RandomAllStart
    \/ RandomAllAlbum
    \/ OfflineRemoval
    \/ DeleteEmptyStart
    \/ DeleteEmptyAlbum

Spec == Init /\ [][Next]_vars

\* the wait loop is a running process: a poll that can be made is made
SpecWait == Init /\ [][Next]_vars /\ WF_vars(SyncLibraryPoll)

MaxRuns == 2         \* invocations of the tool followed one after another

\* The tool is started again, with the same command line and archive, against
\* the server as the completed run left it
Rerun ==
    /\ tool = "auto_album" /\ pc = "done" /\ run < MaxRuns
    /\ run' = run + 1
    /\ baseline' = server.albums
    /\ pc' = "determine_api_key"
    /\ exit_code' = -1
    /\ exc' = "None"
    /\ version' = NoVersion
    /\ requests' = <<>>
    /\ albums_to_create' = <<>>
    /\ album_to_id' = <<>>
    /\ created_albums' = <<>>
    /\ asset_uuids_added' = <<>>
    /\ albums' = <<>>
    /\ users' = <<>>
    /\ idx' = 0
    /\ empty_album_count' = 0
    /\ cleaned_album_count' = 0
    /\ request_time' = 0
    /\ UNCHANGED <<tool, args, server, manifest, call>>

NextRerun == Next \/ Rerun

SpecRerun == Init /\ [][NextRerun]_vars

----------------------------------------------------------------------------
(* Properties of the reconciliation loop *)

\* the requests of one kind sent so far
Sent_(op) == {i \in 1..Len(requests) : requests[i].op = op}
NamesOf(album_list) == {album_list[i].albumName : i \in 1..Len(album_list)}
IdOfName(album_list, name) ==
    album_list[CHOOSE i \in 1..Len(album_list) : album_list[i].albumName = name].id

\* the desired albums the loop has dealt with
AfterLoop == {"archive", "random_all", "random_all_loop", "offline", "delete_empty",
              "delete_loop", "done"}
Processed ==
    IF pc = "loop" THEN 1..(idx - 1)
    ELSE IF pc \in AfterLoop THEN 1..Len(albums_to_create)
    ELSE {}

\* C1: in the reconciliation loop a failed remote call made for one desired album
\* (create, add assets, property patch, sharing update) is caught and the loop
\* goes on to the remaining albums: no pass of the loop ends the run.
C1_LoopPassNeverEndsRun ==
    [][(tool = "auto_album" /\ pc = "loop") => pc' \in {"loop", "archive"}]_vars

\* What C2 says of the create calls, apart from which albums count as created:
\* a processed album has a create call exactly when its final name is not a name
\* of the album list, otherwise it carries the listed id; no create call names a
\* listed album, and no final name is created twice.
CreateCallsAsNeeded ==
    /\ \A k \in Processed :
          LET name == get_final_name(albums_to_create[k].value)
          IN IF name \in NamesOf(baseline)
             THEN albums_to_create[k].value.id = IdOfName(baseline, name)
             ELSE \E i \in Sent_("create") : requests[i].album = name
    /\ \A i \in Sent_("create") : requests[i].album \notin NamesOf(baseline)
    /\ \A i, j \in Sent_("create") : requests[i].album = requests[j].album => i = j

\* C2 as stated: create is called exactly for the final names missing from the
\* album list, at most once per name, and the newly-created albums are exactly
\* the albums for which create was called.
C2_CreatedAreThoseCreateWasCalledFor ==
    tool = "auto_album" =>
        /\ CreateCallsAsNeeded
        /\ Range(created_albums) = {requests[i].album : i \in Sent_("create")}

\* C2, amended: the same, the newly-created albums being exactly the albums whose
\* create call succeeded (a create call that fails records nothing).
C2_CreatedAreThoseCreateSucceededFor ==
    tool = "auto_album" =>
        /\ CreateCallsAsNeeded
        /\ Range(created_albums) = {requests[i].album : i \in {j \in Sent_("create") : requests[j].ok}}

\* a completed run that created one album and adopted another
C2_CreatedOneAdoptedOne ==
    /\ pc = "done" /\ tool = "auto_album"
    /\ Len(created_albums) > 0
    /\ \E k \in 1..Len(albums_to_create) :
          get_final_name(albums_to_create[k].value) \in NamesOf(baseline)

\* the albums of a server with their members
Memberships(album_list) ==
    {<<album_list[i].id, album_list[i].albumName, album_list[i].assets>> : i \in 1..Len(album_list)}

\* a second invocation in the setting of C3
SecondRunOfPlainSync ==
    /\ tool = "auto_album" /\ run = 2
    /\ args.sync_mode = 0 /\ args.update_album_props_mode = 0
    /\ args.set_album_thumbnail \notin {"random", ALBUM_THUMBNAIL_RANDOM_ALL}

\* C3: a second run with the same inputs against the server a completed first run
\* left (sync-mode 0, property-update mode 0, no random thumbnail policy) issues
\* no create call and reports no asset as newly added; the album set and the
\* memberships stay as the first run left them.
C3_SecondRunChangesNothing ==
    SecondRunOfPlainSync =>
        /\ Sent_("create") = {}
        /\ asset_uuids_added = <<>>
        /\ Memberships(server.albums) = Memberships(baseline)

\* the second run has completed; the first one had created an album and filled it
C3_SecondRunCompleted ==
    /\ SecondRunOfPlainSync /\ pc = "done"
    /\ \E i \in 1..Len(baseline) :
          /\ baseline[i].id >= ServerOf({}, {}, FALSE).next_id
          /\ baseline[i].assets # <<>>
    /\ Len(albums_to_create) > 0

----------------------------------------------------------------------------
(* Properties of single functions, under SpecCalls *)

CallsOf(fn) == {n \in 1..Len(call) : call[n].fn = fn}
MembersBefore(n) == Range(call[n].before.albums[1].assets)

\* C4: add_assets_to_album is idempotent: an id that is already a member of the
\* album raises no error (the call fails only when a request is answered with an
\* error status) and is left out of the returned list; of two calls in a row with
\* the same ids the second returns the empty list.
C4_AddAssetsIsIdempotent ==
    \A n \in CallsOf("add_assets_to_album") :
        /\ call[n].exc # "None" => \E i \in 1..Len(call[n].sent) : ~call[n].sent[i].ok
        /\ call[n].exc = "None" => Range(call[n].ret) \cap MembersBefore(n) = {}
        /\ (/\ n > 1 /\ call[n - 1].fn = "add_assets_to_album" /\ call[n - 1].ids = call[n].ids
            /\ call[n - 1].exc = "None" /\ call[n].exc = "None")
           => call[n].ret = <<>>

\* two calls in a row with a member and a new id: the first returns the new id,
\* the second nothing
C4_AddedTwice ==
    /\ Len(call) = 2
    /\ \A n \in 1..2 : call[n].fn = "add_assets_to_album" /\ call[n].exc = "None"
    /\ call[1].ids = call[2].ids
    /\ Range(call[1].ids) \cap MembersBefore(1) # {}
    /\ call[1].ret # <<>>
    /\ call[2].ret = <<>>

\* what a sharing call starts from: the album's users on the server (actual) and
\* the users of share_with that exist (desired), each with a role
ActualUsers(n) == {e.user : e \in Range(call[n].before.albums[1].albumUsers)}
ActualRole(n, u) ==
    (CHOOSE e \in Range(call[n].before.albums[1].albumUsers) : e.user = u).role
DesiredEntries(n) ==
    {e \in Range(call[n].model.share_with) :
        \E i \in 1..Len(ServerUsers) : e.user \in {ServerUsers[i].name, ServerUsers[i].email}}
UserIdOf(e) ==
    ServerUsers[CHOOSE i \in 1..Len(ServerUsers) :
                    e.user \in {ServerUsers[i].name, ServerUsers[i].email}].id
DesiredUsers(n) == {UserIdOf(e) : e \in DesiredEntries(n)}
DesiredRole(n, u) == (CHOOSE e \in DesiredEntries(n) : UserIdOf(e) = u).role

\* the calls C5 expects, as <<kind, users, role>>
ExpectedShareCalls(n) ==
    LET toAdd == DesiredUsers(n) \ ActualUsers(n)
    IN {<<"role", {u}, DesiredRole(n, u)>> :
            u \in {v \in DesiredUsers(n) \cap ActualUsers(n) : ActualRole(n, v) # DesiredRole(n, v)}}
       \cup (IF call[n].unshare
             THEN {<<"unshare", {u}, "None">> : u \in ActualUsers(n) \ DesiredUsers(n)}
             ELSE {})
       \cup {<<"share", {u \in toAdd : DesiredRole(n, u) = r}, r>> :
                r \in {DesiredRole(n, u) : u \in toAdd}}
IssuedShareCalls(n) ==
    {<<call[n].sent[i].op, Range(call[n].sent[i].ids), call[n].sent[i].role>> :
        i \in 1..Len(call[n].sent)}

\* the album's actual sharing was read: the album info request was answered
ActualSharingRead(n) == ~Fails(call[n].failed, "album_info", 2)

\* C5: for an album whose actual sharing it has read, update_album_shared_state
\* issues exactly one role update per user whose actual and desired roles differ,
\* none for a matching role, one unshare per actual-only user when the unshare
\* flag is true (none otherwise) and one add call per role among the desired-only
\* users, carrying all users of that role.
C5_SharingCallsAreExactlyTheDifference ==
    \A n \in CallsOf("update_album_shared_state") :
        ActualSharingRead(n) =>
            /\ IssuedShareCalls(n) = ExpectedShareCalls(n)
            /\ Len(call[n].sent) = Cardinality(ExpectedShareCalls(n))

\* C14: within sharing convergence for one album a failed remote call for one
\* user (role update, unshare) or one role group (add) is logged and does not stop
\* the rest: the function returns normally and every call of the difference has
\* been issued; a share-with entry that names no existing user is skipped and the
\* calls for the other entries are issued all the same.
C14_SharingFailuresDoNotStopTheRest ==
    \A n \in CallsOf("update_album_shared_state") :
        ActualSharingRead(n) =>
            /\ call[n].exc = "None"
            /\ ExpectedShareCalls(n) \subseteq IssuedShareCalls(n)
            /\ \A i \in 1..Len(call[n].sent) : Range(call[n].sent[i].ids) \subseteq
                                                   {ServerUsers[u].id : u \in 1..Len(ServerUsers)}

\* the payload fields that are set on an album model; the thumbnail is sent when
\* one was chosen
SetFields(m) ==
    (IF m.description # "None" THEN {"description"} ELSE {})
    \cup (IF m.sort_order # "None" THEN {"order"} ELSE {})
    \cup (IF m.comments_and_likes_enabled # "None" THEN {"isActivityEnabled"} ELSE {})
MayHaveThumbnail(m) ==
    m.thumbnail_setting \notin {"None", ALBUM_THUMBNAIL_RANDOM_ALL}

\* C6: update_album_properties sends at most one patch per call; the patch holds
\* the fields set on the model it was given and no other (the thumbnail only when
\* the model has a thumbnail setting, and then an asset of the album), each with
\* the model's own value; when no field is set no patch is sent.
C6_PatchHoldsOnlySetFields ==
    \A n \in CallsOf("update_album_properties") :
        LET m == call[n].model
            sent == call[n].sent
        IN /\ Len(sent) <= 1
           /\ (SetFields(m) = {} /\ ~MayHaveThumbnail(m)) => sent = <<>>
           /\ \A i \in 1..Len(sent) :
                 LET data == sent[i].data
                 IN /\ sent[i].op = "patch" /\ sent[i].album = m.id
                    /\ data.fields # {}
                    /\ data.fields \ {"albumThumbnailAssetId"} = SetFields(m)
                    /\ "albumThumbnailAssetId" \in data.fields =>
                          /\ MayHaveThumbnail(m)
                          /\ data.albumThumbnailAssetId \in MembersBefore(n)
                    /\ "description" \in data.fields => data.description = m.description
                    /\ "order" \in data.fields => data.order = m.sort_order
                    /\ "isActivityEnabled" \in data.fields =>
                          data.isActivityEnabled = m.comments_and_likes_enabled

\* a patch with a thumbnail, a sort order and the activity toggle, for a model
\* without description
C6_PatchWithoutDescription ==
    \E n \in CallsOf("update_album_properties") :
        /\ call[n].exc = "None"
        /\ call[n].model.description = "None"
        /\ Len(call[n].sent) = 1
        /\ call[n].sent[1].data.fields = {"albumThumbnailAssetId", "order", "isActivityEnabled"}

\* the candidates update_album_properties hands to choose_thumbnail: the members
\* of the album when it is re-fetched
Candidates(n) ==
    LET ids == call[n].before.albums[1].assets
    IN [i \in 1..Len(ids) |-> AssetRec(ids[i])]

\* no thumbnail can be determined for the model of the call
NoThumbnailFor(n) ==
    /\ MayHaveThumbnail(call[n].model)
    /\ ~Fails(call[n].failed, "album_info", 1)
    /\ \A rnd \in RandomDraws :
          choose_thumbnail(call[n].model.thumbnail_setting, Candidates(n), rnd) = NoAsset

\* C16: when no thumbnail can be determined for an album (no candidates, or a
\* literal path that is no candidate's originalPath) update_album_properties only
\* logs a warning: it raises no error of its own and sends no thumbnail field,
\* called for an album of the reconciliation loop or for a listed album of the
\* random-all pass.
C16_NoThumbnailIsOnlyAWarning ==
    \A n \in CallsOf("update_album_properties") :
        NoThumbnailFor(n) =>
            /\ call[n].exc \in {"None", RequestsHTTPError}
            /\ call[n].exc = RequestsHTTPError => \E i \in 1..Len(call[n].sent) : ~call[n].sent[i].ok
            /\ \A i \in 1..Len(call[n].sent) :
                  "albumThumbnailAssetId" \notin call[n].sent[i].data.fields

\* the candidate at position i is the earliest (latest) created of the list l and,
\* of the candidates created at that time, the first (last) of the list
FirstOfEarliest(l, i) ==
    /\ \A j \in 1..Len(l) : l[i].fileCreatedAt <= l[j].fileCreatedAt
    /\ \A j \in 1..(i - 1) : l[j].fileCreatedAt # l[i].fileCreatedAt
LastOfLatest(l, i) ==
    /\ \A j \in 1..Len(l) : l[j].fileCreatedAt <= l[i].fileCreatedAt
    /\ \A j \in (i + 1)..Len(l) : l[j].fileCreatedAt # l[i].fileCreatedAt

\* C17: for every non-empty candidate list choose_thumbnail returns with setting
\* "first" an asset whose creation time is the minimum of the list and with
\* setting "last" one whose creation time is the maximum; among candidates of
\* equal creation time the stable sort keeps the input order, so "first" returns
\* the first of the earliest and "last" the last of the latest.
C17_FirstIsEarliestLastIsLatest ==
    \A n \in CallsOf("choose_thumbnail") :
        LET l == call[n].model.assets
            setting == call[n].model.thumbnail_setting
        IN Len(l) > 0 =>
              /\ setting = "first" =>
                    \E i \in 1..Len(l) : call[n].ret = l[i] /\ FirstOfEarliest(l, i)
              /\ setting = "last" =>
                    \E i \in 1..Len(l) : call[n].ret = l[i] /\ LastOfLatest(l, i)

\* "first" was asked of a list in which two candidates share the earliest
\* creation time and a later-created candidate stands before them
C17_FirstAmongEqual ==
    \E n \in CallsOf("choose_thumbnail") :
        LET l == call[n].model.assets
        IN /\ call[n].model.thumbnail_setting = "first"
           /\ Len(l) = 3
           /\ l[2].fileCreatedAt = l[3].fileCreatedAt
           /\ l[2].fileCreatedAt < l[1].fileCreatedAt
           /\ call[n].ret = l[2]

\* C8: delete_album never raises to its caller: it returns True when the delete
\* request succeeded and False, after logging, when it was answered with an error.
C8_DeleteAlbumNeverRaises ==
    \A n \in CallsOf("delete_album") :
        /\ call[n].exc = "None"
        /\ Len(call[n].sent) = 1
        /\ call[n].ret = call[n].sent[1].ok

\* the role a sharing mutation was called with
RolePassed(n) == call[n].model.share_with[1].role

\* C13: update_album_share_user_role and share_album_with_user_and_role check
\* their role argument: whenever the role passed is not viewer or editor they
\* fail with an AssertionError before any request is sent.
C13_InvalidRoleFailsAssertion ==
    \A n \in CallsOf("update_album_share_user_role") \cup CallsOf("share_album_with_user_and_role") :
        RolePassed(n) \notin SHARE_ROLES =>
            /\ call[n].exc = "AssertionError"
            /\ call[n].sent = <<>>

\* the delete requests for assets among the requests of a call
AssetDeletesOf(n) == {i \in 1..Len(call[n].sent) : call[n].sent[i].op = "delete_assets"}
OfflineInTrash(n) == call[n].before.trashed \cap call[n].before.offline

----------------------------------------------------------------------------
(* Properties of the passes after the loop *)

\* the albums without assets in the listing the delete pass took
ListedEmpty == {i \in 1..Len(albums) : albums[i].assetCount = 0}
DeletesOf(album_id) == {i \in Sent_("delete") : requests[i].album = album_id}

\* C7: with sync-mode 1 or 2 the delete-empty-albums pass issues exactly one delete
\* call for every album with asset count zero in the listing taken at its start
\* and none for any other album, and reports successes over attempts (N/N when
\* all N deletes succeed); with sync-mode 0 no album is ever deleted.
C7_DeletesEveryListedEmptyAlbumOnce ==
    tool = "auto_album" =>
        /\ args.sync_mode = 0 => Sent_("delete") = {}
        /\ \A i \in Sent_("delete") :
              /\ \E k \in ListedEmpty : albums[k].id = requests[i].album
              /\ DeletesOf(requests[i].album) = {i}
        /\ (pc \in {"done", "exited"} /\ Sent_("delete") # {}) =>
              \A k \in ListedEmpty : DeletesOf(albums[k].id) # {}
        /\ (pc = "done" /\ args.sync_mode >= 1) =>
              /\ empty_album_count = Cardinality(ListedEmpty)
              /\ cleaned_album_count = Cardinality({i \in Sent_("delete") : requests[i].ok})

----------------------------------------------------------------------------
(* Properties of the start of both scripts *)

\* the minimum supported server version named by the scripts' fatal message
MinimumVersion == [major |-> 1, minor |-> 106, patch |-> 0]

\* v is a lower version number than w
VersionBelow(v, w) ==
    \/ v.major < w.major
    \/ v.major = w.major /\ v.minor < w.minor
    \/ v.major = w.major /\ v.minor = w.minor /\ v.patch < w.patch

\* C9: for every detected server version both tools exit with code 1 right after
\* the version detection if and only if the version is below 1.106.0.
C9_ExitsIffBelowMinimumVersion ==
    [][pc = "check_version" =>
          ((pc' = "exited" /\ exit_code' = 1) <=> VersionBelow(version, MinimumVersion))]_vars

\* the fatal configuration errors: no API key, both comments-and-likes flags, a
\* detected server version below the minimum supported one
FatalConfiguration ==
    \/ determine_api_key(args).ret = "None"
    \/ tool = "auto_album" /\ args.comments_and_likes_enabled /\ args.comments_and_likes_disabled
    \/ version # NoVersion /\ VersionBelow(version, MinimumVersion)

\* C10: a run with a fatal configuration error issues no mutating request (create,
\* patch, share, add, archive, delete, library scan) and ends with a non-zero exit
\* code.
C10_FatalConfigurationAbortsBeforeMutation ==
    FatalConfiguration =>
        /\ requests = <<>>
        /\ pc \in {"done", "exited"} => exit_code # 0

----------------------------------------------------------------------------
(* Properties of the offline asset removal step *)

\* the version that brought the synchronous removal of offline assets
RemovalChangeVersion == [major |-> 1, minor |-> 116, patch |-> 0]

\* the removal requests a step adds: job triggers and asset deletes
NewRemovalRequests ==
    {i \in (Len(requests) + 1)..Len(requests') :
        requests'[i].op \in {"removeOffline", "delete_assets"}}

\* C12: offline-asset removal runs only with sync-mode 2, and then exactly one of
\* its two implementations runs: the asynchronous per-library job trigger if and
\* only if the server version is below 1.116, the synchronous list-filter-delete
\* otherwise.
C12_RemovalIsGatedByVersion ==
    [][/\ NewRemovalRequests # {} => (tool = "auto_album" /\ pc = "offline" /\ args.sync_mode = 2)
       /\ (tool = "auto_album" /\ pc = "offline" /\ args.sync_mode = 2) =>
             \E F \in Oracles({"search", "delete", "libraries"}),
                statuses \in [1..2 -> RemovalStatuses] :
                LET c == IF VersionBelow(version, RemovalChangeVersion)
                         THEN trigger_offline_asset_removal_pre_minor_version_116(Ctx, F, statuses)
                         ELSE trigger_offline_asset_removal_since_minor_version_116(Ctx, F)
                IN /\ server' = c.server
                   /\ requests' = c.requests
                   /\ (c.exc # "None") <=> (pc' = "exited")]_vars

----------------------------------------------------------------------------
(* Properties of the random-all pass *)

\* the requests a step adds
NewRequests == SubSeq(requests', Len(requests) + 1, Len(requests'))

\* the members an album has on the server
CurrentAssets(album_id) == Range(server.albums[AlbumIndex(server, album_id)].assets)

\* C15: with thumbnail policy random-all the pass after the reconciliation loop
\* lists every album that exists remotely at that point and deals with each of
\* them in turn: unless a request is answered with an error, an album is patched
\* once, with a thumbnail that is one of its own current assets and with no other
\* property (an album without assets gets no patch), and the pass goes on to the
\* next listed album.
C15_RandomAllPatchesEveryAlbum ==
    [][/\ (/\ Running("auto_album", "random_all")
           /\ args.set_album_thumbnail = ALBUM_THUMBNAIL_RANDOM_ALL
           /\ pc' # "exited")
          => {albums'[i].id : i \in 1..Len(albums')} = {server.albums[i].id : i \in 1..Len(server.albums)}
       /\ Running("auto_album", "random_all_loop") =>
             /\ Len(NewRequests) <= 1
             /\ \A i \in 1..Len(NewRequests) :
                   /\ NewRequests[i].op = "patch"
                   /\ NewRequests[i].album = albums[idx].id
                   /\ NewRequests[i].data.fields = {"albumThumbnailAssetId"}
                   /\ NewRequests[i].data.albumThumbnailAssetId \in CurrentAssets(albums[idx].id)
             /\ exc' # RequestsHTTPError =>
                   /\ (CurrentAssets(albums[idx].id) # {}) <=> (Len(NewRequests) = 1)
                   /\ pc' = (IF idx = Len(albums) THEN "offline" ELSE "random_all_loop")
                   /\ idx' = idx + 1]_vars

----------------------------------------------------------------------------
(* Properties of the desired-state builder *)

\* the path of the cover photo the archive names for the album titled name, when
\* the photo is one of the fetched assets ("None": none)
CoverPathOf(name) ==
    LET asset_by_gpid == build_id_mapping(fetch_assets(Ctx, ~args.find_assets_in_albums, FALSE, args, {}).ret)
        first == CHOOSE i \in 1..Len(manifest) :
                     /\ manifest[i].has_meta /\ manifest[i].title = name
                     /\ \A j \in 1..(i - 1) : ~(manifest[j].has_meta /\ manifest[j].title = name)
        cover == manifest[first].coverPhotoMediaItemId
    IN IF cover # 0 /\ asset_by_gpid[cover] # NoAsset
       THEN asset_by_gpid[cover].originalPath ELSE "None"

\* the --share-with entries with their roles
CliShares ==
    [i \in 1..Len(args.share_with) |->
        [user |-> args.share_with[i][1],
         role |-> IF Len(args.share_with[i]) > 1 THEN args.share_with[i][2] ELSE args.share_role]]

\* C18: the command line defaults are merged into an album model last and only
\* into fields still unset: every built model has the thumbnail setting taken from
\* the archive's cover photo when there is one and the --set-album-thumbnail value
\* only otherwise, and the command line's sharing, order, archive and
\* comments-and-likes values in the fields nothing else sets.
C18_CliDefaultsFillOnlyUnsetFields ==
    (tool = "auto_album" /\ pc = "confirm") =>
        \A k \in 1..Len(albums_to_create) :
            LET m == albums_to_create[k].value
            IN /\ m.thumbnail_setting =
                     IF CoverPathOf(m.name) # "None" THEN CoverPathOf(m.name)
                     ELSE args.set_album_thumbnail
               /\ m.share_with = CliShares
               /\ m.sort_order = IF args.album_order # "False" THEN args.album_order ELSE "None"
               /\ m.archive = IF args.archive THEN "True" ELSE "None"
               /\ m.comments_and_likes_enabled =
                     IF args.comments_and_likes_enabled THEN "True"
                     ELSE IF args.comments_and_likes_disabled THEN "False" ELSE "None"

----------------------------------------------------------------------------
(* Properties of the run as a whole *)

\* what a mutating request asks of the server, whatever the answer was
Asked(i) == [requests[i] EXCEPT !.ok = TRUE]

\* C19: no remote call is retried: within one run no two mutating requests ask
\* the same of the same target (create of one album name, add of one chunk to one
\* album, one property patch, one role update, one unshare, one share-group add,
\* one album delete, one archive call, one asset delete), so a request that was
\* answered with an error is never issued again.
C19_NoRequestIsIssuedTwice ==
    \A i, j \in 1..Len(requests) : Asked(i) = Asked(j) => i = j

\* a run that went on after a request was answered with an error: the job
\* trigger for one library was refused and the other library's was still sent
C19_WentOnAfterRefusal ==
    /\ tool = "auto_album" /\ pc = "done"
    /\ \E i \in 1..Len(requests) : requests[i].op = "removeOffline" /\ ~requests[i].ok
    /\ Cardinality(Sent_("removeOffline")) = 2

\* the requests that create, patch, share or delete an album or archive or delete
\* an asset
AlbumAndAssetMutations ==
    {"create", "add", "patch", "role", "unshare", "share", "delete", "archive",
     "delete_assets", "removeOffline"}

\* C20: when the unattended flag is not set and the container environment flag
\* is set, the run that has identified its albums exits with code 0 at the
\* confirmation step, and it never creates, patches, shares or deletes an album
\* nor archives or deletes an asset.
C20_ContainerDryRunExitsZero ==
    [][(tool = "auto_album" /\ ~args.unattended /\ args.is_docker) =>
          /\ \A i \in 1..Len(requests') : requests'[i].op \notin AlbumAndAssetMutations
          /\ server'.albums = baseline /\ server'.archived = {}
          /\ pc = "confirm" => (pc' = "exited" /\ exit_code' = 0 /\ exc' = "None")]_vars

\* the dry run in a container has listed its albums and ended
C20_DryRunEnded ==
    /\ tool = "auto_album" /\ ~args.unattended /\ args.is_docker
    /\ pc = "exited" /\ exit_code = 0
    /\ Len(albums_to_create) > 0

----------------------------------------------------------------------------
(* Properties of the gating of the two updates in the reconciliation loop *)

\* the requests of one kind a step adds
NewOf(ops) == {i \in 1..Len(NewRequests) : NewRequests[i].op \in ops}

\* the pass of the loop has created its album
CreatedInPass == \E i \in NewOf({"create"}) : NewRequests[i].ok

\* the album the pass is about, before and after the pass
PassAlbum == albums_to_create[idx].value
PassAlbumAfter == albums_to_create'[idx].value

SharingOps == {"role", "unshare", "share"}

----------------------------------------------------------------------------
(* C23: paging of the asset search *)

FetchCalls == {call[n] : n \in CallsOf("fetch_assets_with_options")}
PageSizeOf(r) == IF r.model.fetch_chunk_size < 1000 THEN r.model.fetch_chunk_size ELSE 1000

\* C23: fetch_assets_with_options asks for the pages 1, 2, 3, ... of
\* min(fetch-chunk-size, 1000) items, asks for page k+1 exactly when page k came
\* back full, stops at the first shorter page and returns the pages concatenated
\* in order: N matching assets take N \div size + 1 requests
C23_PagesUntilFirstShortPage ==
    \A r \in FetchCalls :
        LET size == PageSizeOf(r)
            n == Len(r.sent)
        IN /\ n >= 1
           /\ \A k \in 1..n : r.sent[k].page = k
           /\ \A k \in 1..(n - 1) : r.sent[k].ok /\ r.sent[k].items = size
           /\ r.sent[n].ok <=> r.exc = "None"
           /\ r.exc = "None" =>
                 /\ r.sent[n].items < size
                 /\ r.ret = r.ids
                 /\ n = (Len(r.ids) \div size) + 1

\* a result of two full pages, ended by a third, empty page
C23_FullPagesThenEmptyPage ==
    \E r \in FetchCalls :
        /\ r.exc = "None" /\ Len(r.sent) = 3 /\ r.sent[3].items = 0
        /\ Len(r.ret) = 2 /\ PageSizeOf(r) = 1

----------------------------------------------------------------------------
(* C24: the two version endpoints *)

VersionCalls == {call[n] : n \in CallsOf("fetch_server_version")}

\* the legacy endpoint is asked after the primary one exactly when the primary
\* answered 404, and a version is returned exactly when the last answer is 200
EndpointsAndVersion(r) ==
    /\ r.ids = IF r.model.primary = 404 THEN <<"server/version", "server-info/version">>
                ELSE <<"server/version">>
    /\ r.model.status = IF r.model.primary = 404 THEN r.model.legacy ELSE r.model.primary
    /\ (r.exc = "None" /\ r.ret = r.before.version) <=> r.model.status = 200
    /\ r.exc = "None" <=> r.model.status = 200

\* C24: fetch_server_version asks the primary endpoint first and the legacy one
\* exactly when the primary answered 404, returns the decoded version exactly
\* when the last answer has status 200, and raises a communication error for
\* every other last status
C24_VersionOrCommunicationError ==
    \A r \in VersionCalls :
        /\ EndpointsAndVersion(r)
        /\ r.model.status # 200 => r.exc = RequestsHTTPError

\* what holds for every answer: the endpoints asked, a version only from a 200,
\* and the communication error for the last statuses from 400 on
C24_VersionOrErrorFrom400 ==
    \A r \in VersionCalls :
        /\ EndpointsAndVersion(r)
        /\ r.model.status >= 400 => r.exc = RequestsHTTPError

----------------------------------------------------------------------------
(* C25: chunked addition of assets *)

ChunkedCalls == {call[n] : n \in CallsOf("add_assets_to_album in chunks")}

RECURSIVE Concat(_)
Concat(lists) == IF lists = <<>> THEN <<>> ELSE lists[1] \o Concat(Tail(lists))

\* the ids of a list the server of a call accepts: no member of the album, no
\* refused asset, and each id at its first occurrence only
RECURSIVE AcceptedOf(_, _, _)
AcceptedOf(r, ids, seen) ==
    IF ids = <<>> THEN <<>>
    ELSE IF \/ ids[1] \in seen \/ ids[1] \in Range(r.before.albums[1].assets)
            \/ ids[1] \in r.before.no_permission
         THEN AcceptedOf(r, Tail(ids), seen)
         ELSE <<ids[1]>> \o AcceptedOf(r, Tail(ids), seen \cup {ids[1]})

\* C25: add_assets_to_album sends the id list in consecutive chunks of at most
\* chunk-size ids, one request per chunk in order and none for an empty list,
\* and returns exactly the ids the server marked as success: duplicates and
\* ids refused for another reason are left out
C25_ChunksInOrderSuccessesReturned ==
    \A r \in ChunkedCalls :
        LET chunks == [k \in 1..Len(r.sent) |-> r.sent[k].ids]
            sent_ids == Concat(chunks)
        IN /\ \A k \in 1..Len(r.sent) :
                 /\ r.sent[k].op = "add"
                 /\ Len(chunks[k]) \in 1..r.model.chunk_size
                 /\ k < Len(r.sent) => Len(chunks[k]) = r.model.chunk_size /\ r.sent[k].ok
           /\ Len(sent_ids) <= Len(r.ids) /\ sent_ids = SubSeq(r.ids, 1, Len(sent_ids))
           /\ r.exc = "None" => /\ sent_ids = r.ids
                                /\ r.ret = AcceptedOf(r, r.ids, {})
           /\ r.exc # "None" => ~Last(r.sent).ok

\* three ids in a chunk of two and a chunk of one: a duplicate, a refused id
\* and one id added
C25_ShortLastChunkOneAdded ==
    \E r \in ChunkedCalls :
        /\ r.exc = "None" /\ Len(r.sent) = 2
        /\ Len(r.sent[1].ids) = 2 /\ Len(r.sent[2].ids) = 1
        /\ Len(r.ret) = 1
        /\ \E i \in 1..3 : r.ids[i] \in r.before.no_permission
        /\ \E i, j \in 1..3 : i < j /\ r.ids[i] = r.ids[j] /\ r.ids[i] \in Range(r.ret)

----------------------------------------------------------------------------
(* C26: the desired state holds each album id and each asset once *)

\* the loop of build_album_list over the archive of the run
BuiltNow ==
    BuildAlbumListFrom(EmptyAlbumList, manifest, 1,
                       build_id_mapping(fetch_assets(Ctx, ~args.find_assets_in_albums, FALSE, args, {}).ret), args)

\* the archive's albums that count: title and item count present, id not seen before
Counts(i) ==
    /\ manifest[i].has_meta
    /\ \A j \in 1..(i - 1) : manifest[j].has_meta => manifest[j].id # manifest[i].id

\* the items of the albums of a title, in the order of the archive
RECURSIVE ItemsOfTitle(_, _)
ItemsOfTitle(title, i) ==
    IF i > Len(manifest) THEN <<>>
    ELSE (IF Counts(i) /\ manifest[i].title = title THEN manifest[i].items ELSE <<>>)
         \o ItemsOfTitle(title, i + 1)

FirstIndex(list, x) == CHOOSE i \in 1..Len(list) : list[i] = x /\ \A j \in 1..(i - 1) : list[j] # x

\* the library asset of an archive item, NoAsset when the search did not return it
MappedNow(g) == build_id_mapping(fetch_assets(Ctx, ~args.find_assets_in_albums, FALSE, args, {}).ret)[g]

----------------------------------------------------------------------------
(* C27: archiving of the assets added in the run *)

\* the members an album had when the run started
MembersAtStart(album_id) ==
    UNION {Range(baseline[i].assets) : i \in {j \in 1..Len(baseline) : baseline[j].id = album_id}}

\* the ids of the add requests that made a new member, in the order of the requests
RECURSIVE AddedInRun(_)
AddedInRun(i) ==
    IF i > Len(requests) THEN <<>>
    ELSE (IF requests[i].op = "add" /\ requests[i].ok
          THEN SelectSeq(requests[i].ids,
                         LAMBDA id : /\ id \in CurrentAssets(requests[i].album)
                                     /\ id \notin MembersAtStart(requests[i].album))
          ELSE <<>>) \o AddedInRun(i + 1)

\* C27: after the reconciliation loop the archive request is sent exactly when
\* --archive is set and the run added an asset to an album, and it names exactly
\* the ids add_assets_to_album returned as added in this run, so no id answered
\* as duplicate; no other step archives, and without --archive nothing is archived
C27_ArchivesExactlyTheAddedAssets ==
    [][/\ NewOf({"archive"}) # {} => Running("auto_album", "archive")
       /\ ~args.archive => server'.archived = server.archived
       /\ Running("auto_album", "archive") =>
             /\ NewOf({"archive"}) # {} <=> (args.archive /\ AddedInRun(1) # <<>>)
             /\ Cardinality(NewOf({"archive"})) <= 1
             /\ \A i \in NewOf({"archive"}) : NewRequests[i].ids = AddedInRun(1)]_vars

\* a run that asked to add a member again and an asset new to the album, and
\* archived the new one only
C27_DuplicateNotArchived ==
    /\ tool = "auto_album" /\ pc = "random_all"
    /\ \E i \in Sent_("archive"), j \in Sent_("add") :
          /\ requests[i].ok /\ requests[j].ok
          /\ \E id \in Range(requests[j].ids) :
                /\ id \in MembersAtStart(requests[j].album)
                /\ id \notin Range(requests[i].ids)
                /\ id \notin server.archived

----------------------------------------------------------------------------
(* C28: sync_library waits for the scan *)

Waiting == Running("sync_library", "poll")
Refreshed == server.refreshedAt > request_time

\* C28: with --wait sync_library returns only after a poll has seen refreshedAt
\* strictly later than the time taken before the scan request, polls again after
\* every other answer and ends by itself in no other way, and returns once the
\* server has advanced refreshedAt; without --wait it returns right after the
\* scan request and never polls
C28_WaitsUntilRefreshed ==
    /\ [][/\ (Waiting /\ pc' = "done") => (args.wait /\ Refreshed)
          /\ (Waiting /\ pc' = "exited") => exc' = RequestsHTTPError
          /\ (Running("sync_library", "sync_library") /\ pc' = "done") => ~args.wait
          /\ (Running("sync_library", "sync_library") /\ pc' = "poll") =>
                (args.wait /\ request_time' = server.clock)
          /\ pc' = "poll" => args.wait]_vars
    /\ (Waiting /\ Refreshed) ~> ~Waiting

\* the run returned after a poll that saw no later refreshedAt and one that did
C28_ReturnedAfterSecondPoll ==
    /\ tool = "sync_library" /\ args.wait /\ pc = "done" /\ exit_code = 0
    /\ server.refreshedAt = request_time + 1
    /\ server.clock = request_time + 2

----------------------------------------------------------------------------
(* C29: a removal trigger the server refuses *)

\* the removal step of a run whose server is asked per library
TriggersJobs ==
    /\ Running("auto_album", "offline") /\ args.sync_mode = 2
    /\ version.major = 1 /\ version.minor < 116

\* the libraries whose trigger this step saw refused with 403
RefusedNow ==
    {server'.refused_jobs[i] : i \in (Len(server.refused_jobs) + 1)..Len(server'.refused_jobs)}

\* the new requests other than refused triggers all succeeded
OnlyRefusals ==
    \A i \in 1..Len(NewRequests) :
        NewRequests[i].ok \/ (NewRequests[i].op = "removeOffline" /\ NewRequests[i].album \in RefusedNow)

----------------------------------------------------------------------------
(* C30: the order of the passes *)

RemovalOps == {"removeOffline", "delete_assets"}

\* what the removal step leaves when it went through: every library asked for
\* its job, or no offline asset left in the trash
RemovalRequested ==
    IF version.major = 1 /\ version.minor < 116
    THEN Range(server.removal_jobs) \cup Range(server.refused_jobs) = Range(server.libraries)
    ELSE server.trashed \cap server.offline = {}

\* C30: the desired albums are processed in ascending order of their final
\* names; the archive request is sent only after the last of them; the
\* random-all pass comes after the archive step; with sync mode 2 the removal of
\* offline assets is requested before the albums are listed for the deletion of
\* the empty ones, so no album is deleted before it
C30_PassesInOrder ==
    [][tool = "auto_album" =>
         /\ pc = "loop" =>
               /\ \A k \in 1..(Len(albums_to_create) - 1) :
                     albums_to_create[k].key < albums_to_create[k + 1].key
               /\ \A k \in 1..Len(albums_to_create) :
                     /\ albums_to_create[k].key = get_final_name(albums_to_create[k].value)
                     /\ k # idx => albums_to_create'[k] = albums_to_create[k]
               /\ \A i \in NewOf({"create"}) : NewRequests[i].album = albums_to_create[idx].key
               /\ \A i \in NewOf({"add"}) : NewRequests[i].album = PassAlbumAfter.id
               /\ pc' # "exited" => idx' = idx + 1
               /\ pc' = "archive" <=> (pc' # "exited" /\ idx = Len(albums_to_create))
         /\ pc' = "archive" => idx' = Len(albums_to_create') + 1
         /\ NewOf({"archive"}) # {} => pc = "archive"
         /\ pc' = "random_all" => pc = "archive"
         /\ pc \in {"random_all", "random_all_loop"} =>
               /\ NewOf({"archive", "create", "add"}) = {}
               /\ pc' \in {"random_all_loop", "offline", "exited"}
         /\ NewOf(RemovalOps) # {} => (pc = "offline" /\ args.sync_mode = 2)
         /\ pc' = "delete_empty" => (pc = "offline" /\ (args.sync_mode = 2 => RemovalRequested'))
         /\ NewOf({"delete"}) # {} => (pc = "delete_loop" /\ (args.sync_mode = 2 => RemovalRequested))
         /\ \A i \in 1..Len(requests), j \in NewOf(RemovalOps) : requests[i].op # "delete"]_vars

\* a run that created album 1 before album 2, archived the added assets after
\* that and patched an album in the random-all pass after archiving
C30_CreatedArchivedShuffled ==
    /\ tool = "auto_album"
    /\ \E i, j, k, l \in 1..Len(requests) :
          /\ i < j /\ j < k /\ k < l
          /\ requests[i].op = "create" /\ requests[j].op = "create"
          /\ requests[i].album < requests[j].album
          /\ requests[k].op = "archive" /\ requests[l].op = "patch"

====
